---- MODULE Spec2Model ----
(***************************************************************************)
(* LnkFileInfo 2.0.1: the decoder of Windows shortcut (LNK) files.         *)
(*                                                                         *)
(* A buffer is a sequence of bytes (0..255); the C++ offset i is the TLA+  *)
(* index i + 1.  A std::string is a sequence of bytes as well.  Integers   *)
(* keep their C++ width: uint8 and uint16 are numbers below 2^8 and 2^16,  *)
(* a uint32 is a record [hi, lo] of its two 16-bit halves (its value is    *)
(* hi * 65536 + lo), so that sums of uint32 wrap modulo 2^32 exactly as    *)
(* in the program.  size_t is 64 bits wide.                                *)
(***************************************************************************)
EXTENDS Integers, Sequences, FiniteSets, TLC

(***************************************************************************)
(* Bind(x, F) is F(x) with x computed once: a local variable of the code   *)
(* that is set from a call and then read several times.                    *)
(***************************************************************************)
Bind(x, F(_)) == CHOOSE y \in {F(r) : r \in {x}} : TRUE

(***************************************************************************)
(* Outcomes of an operation: the exceptions of the class, and the          *)
(* std::out_of_range that std::vector::at throws for an index past the end.*)
(***************************************************************************)
NoErr == "none"
InvalidLnkFile == "InvalidLnkFile"
IoError == "IoError"
OutOfRange == "std::out_of_range"

(***************************************************************************)
(* Bitwise operators of C++ on non-negative integers.                      *)
(***************************************************************************)
RECURSIVE BitAnd(_, _)
BitAnd(x, y) ==
    IF x = 0 \/ y = 0 THEN 0
    ELSE (x % 2) * (y % 2) + 2 * BitAnd(x \div 2, y \div 2)

RECURSIVE BitOr(_, _)
BitOr(x, y) ==
    IF x = 0 THEN y
    ELSE IF y = 0 THEN x
    ELSE (IF x % 2 = 1 \/ y % 2 = 1 THEN 1 ELSE 0) + 2 * BitOr(x \div 2, y \div 2)

RECURSIVE Pow2(_)
Pow2(n) == IF n = 0 THEN 1 ELSE 2 * Pow2(n - 1)

(***************************************************************************)
(* uint32 arithmetic.  U32Of is the conversion of a number below 2^30 to   *)
(* uint32; Add32 is the 32-bit unsigned sum of a number below 2^30 and a   *)
(* uint32, reduced modulo 2^32.                                            *)
(***************************************************************************)
U32Of(n) == [hi |-> (n \div 65536) % 65536, lo |-> n % 65536]

Add32(n, u) ==
    LET s == (n % 65536) + u.lo
    IN  [hi |-> ((n \div 65536) + u.hi + (s \div 65536)) % 65536, lo |-> s % 65536]

(***************************************************************************)
(* The conversion of a uint32 offset to size_t.  An offset of 2^30 or more *)
(* lies past the end of every buffer of the model; it is kept as 2^30, on  *)
(* which every bounds check gives the answer it gives on the exact value.  *)
(***************************************************************************)
ToSizeT(u) == IF u.hi >= 16384 THEN 16384 * 65536 ELSE u.hi * 65536 + u.lo

(***************************************************************************)
(* readInteger<T>: the bounds check, then the little-endian sum of         *)
(* bytes.at(i + j) * 2^(8j).  w is sizeof(T).                              *)
(***************************************************************************)
RECURSIVE BigEndian(_, _, _)
BigEndian(bytes, i, w) ==
    IF w = 0 THEN 0
    ELSE bytes[i + w] + 256 * BigEndian(bytes, i, w - 1)

RECURSIVE LittleEndian(_, _, _)
LittleEndian(bytes, i, w) ==
    IF w = 0 THEN 0
    ELSE bytes[i + 1] + 256 * LittleEndian(bytes, i + 1, w - 1)

IndexOutOfRangeLoose(bytes, i, w) == i >= Len(bytes)

IndexOutOfRange(bytes, i, w) == i + w > Len(bytes)

readInteger(bytes, i, w) ==
    IF IndexOutOfRange(bytes, i, w)
    THEN [err |-> InvalidLnkFile, v |-> 0]
    ELSE IF i + w > Len(bytes)
    THEN [err |-> OutOfRange, v |-> 0]
    ELSE [err |-> NoErr,
          v |-> IF w = 4
                THEN [hi |-> LittleEndian(bytes, i + 2, 2), lo |-> LittleEndian(bytes, i, 2)]
                ELSE LittleEndian(bytes, i, w) % Pow2(8 * w)]

(***************************************************************************)
(* readNullTerminatedString: Latin-1 bytes up to the first zero byte, each *)
(* converted to UTF-8.                                                     *)
(***************************************************************************)
Latin1Copied(currentCharacter) == <<currentCharacter>>

Latin1ToUtf8(currentCharacter) ==
    IF currentCharacter < 128
    THEN <<currentCharacter>>
    ELSE <<BitOr(192, currentCharacter \div 64) % 256,
           BitOr(128, BitAnd(currentCharacter, 63)) % 256>>

RECURSIVE readNullTerminatedStringLoop(_, _, _)
readNullTerminatedStringLoop(bytes, i, result) ==
    Bind(readInteger(bytes, i, 1), LAMBDA currentCharacter :
        IF currentCharacter.err # NoErr
        THEN [err |-> currentCharacter.err, s |-> result]
        ELSE IF currentCharacter.v = 0
        THEN [err |-> NoErr, s |-> result]
        ELSE readNullTerminatedStringLoop(bytes, i + 1,
                                          result \o Latin1ToUtf8(currentCharacter.v)))

readNullTerminatedString(bytes, i) == readNullTerminatedStringLoop(bytes, i, <<>>)

(***************************************************************************)
(* readUtf16Codepoint: one code point of a UTF-16 string, as UTF-8, and    *)
(* the number of source bytes it took.                                     *)
(***************************************************************************)
GENERIC_SURROGATE_MASK == 63488
GENERIC_SURROGATE_VALUE == 55296
HIGH_SURROGATE_VALUE == 55296
LOW_SURROGATE_VALUE == 56320
SURROGATE_MASK == 64512
SURROGATE_CODEPOINT_MASK == 1023
SURROGATE_CODEPOINT_BITS == 10
SURROGATE_CODEPOINT_OFFSET == 65536
INVALID_CODEPOINT == 65533

numberOfBytes(codepoint) ==
    IF codepoint > 65535 THEN 4
    ELSE IF codepoint > 2047 THEN 3
    ELSE IF codepoint > 127 THEN 2
    ELSE 1

continuationMask(j, n) ==
    IF j # 1 THEN 63
    ELSE CASE n = 1 -> 127 [] n = 2 -> 31 [] n = 3 -> 15 [] n = 4 -> 7

continuationValue(j, n) ==
    IF j # 1 THEN 128
    ELSE CASE n = 1 -> 0 [] n = 2 -> 192 [] n = 3 -> 224 [] n = 4 -> 240

RECURSIVE EncodeUtf8Loop(_, _, _, _)
EncodeUtf8Loop(codepoint, j, n, result) ==
    IF j = 0 THEN result
    ELSE LET cont == BitOr(BitAnd(codepoint, continuationMask(j, n)),
                          continuationValue(j, n)) % 256
         IN  EncodeUtf8Loop(codepoint \div 64, j - 1, n, <<cont>> \o result)

EncodeUtf8(codepoint) ==
    EncodeUtf8Loop(codepoint, numberOfBytes(codepoint), numberOfBytes(codepoint), <<>>)

PairDoesNotFit(i, end) == end < i + 4

readUtf16Codepoint(bytes, i, end) ==
    Bind(readInteger(bytes, i, 2), LAMBDA high :
        IF high.err # NoErr
        THEN [err |-> high.err, s |-> <<>>, bytesRead |-> 0]
        ELSE IF BitAnd(high.v, GENERIC_SURROGATE_MASK) # GENERIC_SURROGATE_VALUE
        THEN [err |-> NoErr, s |-> EncodeUtf8(high.v), bytesRead |-> 2]
        ELSE IF BitAnd(high.v, SURROGATE_MASK) # HIGH_SURROGATE_VALUE
                \/ PairDoesNotFit(i, end)
        THEN [err |-> NoErr, s |-> EncodeUtf8(INVALID_CODEPOINT), bytesRead |-> 2]
        ELSE Bind(readInteger(bytes, i + 2, 2), LAMBDA low :
                 IF low.err # NoErr
                 THEN [err |-> low.err, s |-> <<>>, bytesRead |-> 0]
                 ELSE IF BitAnd(low.v, SURROGATE_MASK) # LOW_SURROGATE_VALUE
                 THEN [err |-> NoErr, s |-> EncodeUtf8(INVALID_CODEPOINT),
                       bytesRead |-> 2]
                 ELSE [err |-> NoErr,
                       s |-> EncodeUtf8(
                               BitOr(BitAnd(high.v, SURROGATE_CODEPOINT_MASK)
                                       * Pow2(SURROGATE_CODEPOINT_BITS),
                                     BitAnd(low.v, SURROGATE_CODEPOINT_MASK))
                               + SURROGATE_CODEPOINT_OFFSET),
                       bytesRead |-> 4]))

(***************************************************************************)
(* readStringWithPrependedLength: a 16-bit count, then the UTF-16 string.  *)
(* Returns the string as UTF-8 and the offset after the string; calls      *)
(* lists the readUtf16Codepoint calls of the loop, in order.               *)
(***************************************************************************)
OffsetOfLastUnit(end) == end

OffsetAfterString(end) == end + 2

RECURSIVE readStringWithPrependedLengthLoop(_, _, _, _, _)
readStringWithPrependedLengthLoop(bytes, i, end, result, calls) ==
    IF ~(i <= end)
    THEN [err |-> NoErr, s |-> result, next |-> OffsetAfterString(end), calls |-> calls]
    ELSE Bind(readUtf16Codepoint(bytes, i, end), LAMBDA r :
             Bind(Append(calls, [i |-> i, s |-> r.s, bytesRead |-> r.bytesRead]),
                  LAMBDA c :
                 IF r.err # NoErr
                 THEN [err |-> r.err, s |-> result, next |-> 0, calls |-> c]
                 ELSE readStringWithPrependedLengthLoop(bytes, i + r.bytesRead, end,
                                                        result \o r.s, c)))

readStringWithPrependedLength(bytes, i) ==
    Bind(readInteger(bytes, i, 2), LAMBDA n :
        IF n.err # NoErr
        THEN [err |-> n.err, s |-> <<>>, next |-> 0, calls |-> <<>>]
        ELSE readStringWithPrependedLengthLoop(bytes, i + 2, i + n.v * 2, <<>>, <<>>))

(***************************************************************************)
(* readFixedLengthString: a UTF-16 string of `length` bytes.               *)
(***************************************************************************)
RECURSIVE readFixedLengthStringLoop(_, _, _, _, _, _)
readFixedLengthStringLoop(bytes, offset, length, i, result, calls) ==
    IF ~(i < length)
    THEN [err |-> NoErr, s |-> result, calls |-> calls]
    ELSE Bind(readUtf16Codepoint(bytes, i + offset + 2, Len(bytes)), LAMBDA r :
             Bind(Append(calls, [i |-> i + offset + 2, s |-> r.s,
                                 bytesRead |-> r.bytesRead]),
                  LAMBDA c :
                 IF r.err # NoErr
                 THEN [err |-> r.err, s |-> result, calls |-> c]
                 ELSE readFixedLengthStringLoop(bytes, offset, length, i + r.bytesRead,
                                                result \o r.s, c)))

readFixedLengthString(bytes, offset, length) ==
    readFixedLengthStringLoop(bytes, offset, length, 0, <<>>, <<>>)

(***************************************************************************)
(* The data members of a LnkFileInfo object.  A uint32 member is a record  *)
(* [hi, lo]; _targetVolumeType is a VolumeType, an enum over uint8_t.      *)
(***************************************************************************)
Unknown == 0
NoRootDirectory == 1
Removable == 2
HardDrive == 3
NetworkDrive == 4
CdRom == 5
RamDrive == 6

HasDescription == 4
HasRelativePath == 8
HasWorkingDirectory == 16
HasCommandLineArgs == 32
HasCustomIcon == 64

(***************************************************************************)
(* The object as the constructor's member initialisers leave it: the path  *)
(* is set, every std::string is empty and the scalar members, which have   *)
(* no initialiser, hold whatever the storage held (garbage, a uint32).     *)
(***************************************************************************)
NewObject(filePath, garbage) ==
    [filePath           |-> filePath,
     absoluteFilePath   |-> <<>>,
     targetPath         |-> <<>>,
     targetVolumeName   |-> <<>>,
     description        |-> <<>>,
     relativeTargetPath |-> <<>>,
     workingDirectory   |-> <<>>,
     commandLineArgs    |-> <<>>,
     iconPath           |-> <<>>,
     targetSize         |-> garbage,
     iconIndex          |-> garbage,
     targetVolumeSerial |-> garbage,
     targetAttributes   |-> garbage.lo,
     targetVolumeType   |-> garbage.lo % 256,
     targetIsOnNetwork  |-> garbage.lo % 2 = 1]

(***************************************************************************)
(* refresh(), "Check the headers".  The result carries the exception       *)
(* thrown, if any, the LinkInfo start and the structure-size byte.         *)
(***************************************************************************)
InvalidMagicBelow(magic) == magic < 76

InvalidMagic(magic) == magic # 76

StartOf(extra) == (78 + extra) % 65536

HeaderRecognizedLegacyOnly(fileinfoHeader) == fileinfoHeader = 28

HeaderRecognized(fileinfoHeader) == fileinfoHeader = 28 \/ fileinfoHeader = 36

CheckHeaders(bytes) ==
    Bind(readInteger(bytes, 0, 1), LAMBDA magic :
    IF magic.err # NoErr
    THEN [err |-> magic.err, what |-> "Index out of range", start |-> 0, header |-> 0]
    ELSE IF InvalidMagic(magic.v)
    THEN [err |-> InvalidLnkFile, what |-> "Invalid header", start |-> 0, header |-> 0]
    ELSE
    Bind(readInteger(bytes, 76, 2), LAMBDA extra :
    IF extra.err # NoErr
    THEN [err |-> extra.err, what |-> "Index out of range", start |-> 0, header |-> 0]
    ELSE
    Bind(StartOf(extra.v), LAMBDA start :
    Bind(readInteger(bytes, start + 4, 1), LAMBDA fileinfoHeader :
    IF fileinfoHeader.err # NoErr
    THEN [err |-> fileinfoHeader.err, what |-> "Index out of range",
          start |-> start, header |-> 0]
    ELSE IF ~HeaderRecognized(fileinfoHeader.v)
    THEN [err |-> InvalidLnkFile, what |-> "Invalid fileinfo header",
          start |-> start, header |-> fileinfoHeader.v]
    ELSE [err |-> NoErr, what |-> "", start |-> start, header |-> fileinfoHeader.v]))))

(***************************************************************************)
(* refresh(), "Target info".  Each stage returns the exception thrown, if  *)
(* any, and the object with the members assigned before the throw.         *)
(***************************************************************************)
TargetInfo(self, bytes, start) ==
    Bind(readInteger(bytes, 24, 2), LAMBDA attributes :
    IF attributes.err # NoErr THEN [err |-> attributes.err, obj |-> self]
    ELSE
    Bind([self EXCEPT !.targetAttributes = attributes.v], LAMBDA self1 :
    Bind(readInteger(bytes, 52, 4), LAMBDA size :
    IF size.err # NoErr THEN [err |-> size.err, obj |-> self1]
    ELSE
    Bind([self1 EXCEPT !.targetSize = size.v], LAMBDA self2 :
    Bind(readInteger(bytes, start + 8, 1), LAMBDA linkFlags :
    IF linkFlags.err # NoErr THEN [err |-> linkFlags.err, obj |-> self2]
    ELSE [err |-> NoErr,
          obj |-> [self2 EXCEPT !.targetIsOnNetwork = (BitAnd(linkFlags.v, 2) # 0)]])))))

(***************************************************************************)
(* refresh(), "Path and volume info", the network branch.                  *)
(***************************************************************************)
NetworkPathAndVolume(self, bytes, start) ==
    Bind(readInteger(bytes, start + 20, 4), LAMBDA offset :
    IF offset.err # NoErr THEN [err |-> offset.err, obj |-> self, pathOffset |-> 0]
    ELSE
    Bind(Add32(start, offset.v), LAMBDA volumeOffset :
    Bind([self EXCEPT !.targetVolumeType = NetworkDrive,
                      !.targetVolumeSerial = U32Of(0)], LAMBDA self1 :
    Bind(readNullTerminatedString(bytes, ToSizeT(Add32(20, volumeOffset))),
         LAMBDA volumeName :
    IF volumeName.err # NoErr
    THEN [err |-> volumeName.err, obj |-> self1, pathOffset |-> 0]
    ELSE
    Bind([self1 EXCEPT !.targetVolumeName = volumeName.s], LAMBDA self2 :
    Bind(ToSizeT(Add32(21, volumeOffset)) + Len(volumeName.s), LAMBDA pathOffset1 :
    Bind(readNullTerminatedString(bytes, pathOffset1), LAMBDA targetDrive :
    IF targetDrive.err # NoErr
    THEN [err |-> targetDrive.err, obj |-> self2, pathOffset |-> pathOffset1]
    ELSE
    Bind(pathOffset1 + Len(targetDrive.s) + 1, LAMBDA pathOffset2 :
    Bind(readNullTerminatedString(bytes, pathOffset2), LAMBDA remainder :
    IF remainder.err # NoErr
    THEN [err |-> remainder.err, obj |-> self2, pathOffset |-> pathOffset2]
    ELSE [err |-> NoErr,
          obj |-> [self2 EXCEPT !.targetPath = targetDrive.s \o <<92>> \o remainder.s],
          pathOffset |-> pathOffset2])))))))))

(***************************************************************************)
(* refresh(), "Path and volume info", the local branch.                    *)
(***************************************************************************)
LocalPathAndVolume(self, bytes, start) ==
    Bind(readInteger(bytes, start + 12, 4), LAMBDA offset :
    IF offset.err # NoErr THEN [err |-> offset.err, obj |-> self, pathOffset |-> 0]
    ELSE
    Bind(Add32(start, offset.v), LAMBDA volumeOffset :
    Bind(readInteger(bytes, ToSizeT(Add32(4, volumeOffset)), 4), LAMBDA volumeType :
    IF volumeType.err # NoErr
    THEN [err |-> volumeType.err, obj |-> self, pathOffset |-> 0]
    ELSE
    Bind([self EXCEPT !.targetVolumeType = volumeType.v.lo % 256], LAMBDA self1 :
    Bind(readInteger(bytes, ToSizeT(Add32(8, volumeOffset)), 4), LAMBDA serial :
    IF serial.err # NoErr THEN [err |-> serial.err, obj |-> self1, pathOffset |-> 0]
    ELSE
    Bind([self1 EXCEPT !.targetVolumeSerial = serial.v], LAMBDA self2 :
    Bind(readNullTerminatedString(bytes, ToSizeT(Add32(16, volumeOffset))),
         LAMBDA volumeName :
    IF volumeName.err # NoErr
    THEN [err |-> volumeName.err, obj |-> self2, pathOffset |-> 0]
    ELSE
    Bind([self2 EXCEPT !.targetVolumeName = volumeName.s], LAMBDA self3 :
    Bind(readInteger(bytes, start + 16, 4), LAMBDA pathField :
    IF pathField.err # NoErr
    THEN [err |-> pathField.err, obj |-> self3, pathOffset |-> 0]
    ELSE
    Bind(ToSizeT(Add32(start, pathField.v)), LAMBDA pathOffset :
    Bind(readNullTerminatedString(bytes, pathOffset), LAMBDA path :
    IF path.err # NoErr
    THEN [err |-> path.err, obj |-> self3, pathOffset |-> pathOffset]
    ELSE [err |-> NoErr, obj |-> [self3 EXCEPT !.targetPath = path.s],
          pathOffset |-> pathOffset])))))))))))

(***************************************************************************)
(* refresh(), the Unicode path of the extended structure (0x24).           *)
(***************************************************************************)
ExtendedPath(self, bytes, pathOffset, fileinfoHeader) ==
    IF fileinfoHeader # 36
    THEN [err |-> NoErr, obj |-> self]
    ELSE Bind(readFixedLengthString(bytes, pathOffset + Len(self.targetPath),
                                    Len(self.targetPath) * 2), LAMBDA path :
             IF path.err # NoErr
             THEN [err |-> path.err, obj |-> self]
             ELSE [err |-> NoErr, obj |-> [self EXCEPT !.targetPath = path.s]])

PathAndVolume(self, bytes, start, fileinfoHeader) ==
    Bind(IF self.targetIsOnNetwork
         THEN NetworkPathAndVolume(self, bytes, start)
         ELSE LocalPathAndVolume(self, bytes, start), LAMBDA info :
        IF info.err # NoErr
        THEN [err |-> info.err, obj |-> info.obj]
        ELSE ExtendedPath(info.obj, bytes, info.pathOffset, fileinfoHeader))

(***************************************************************************)
(* refresh(), "Additional info": the string section.  ReadStringField is   *)
(* one `if(flags & Flag::...)` block: st is [err, obj, nextLocation].      *)
(***************************************************************************)
FlagSet(flags, flag) == BitAnd(flags, flag) # 0

ReadStringFieldUnchained(st, bytes, flags, flag, member) ==
    IF st.err # NoErr \/ ~FlagSet(flags, flag)
    THEN st
    ELSE Bind(readStringWithPrependedLength(bytes, st.nextLocation), LAMBDA data :
             IF data.err # NoErr
             THEN [st EXCEPT !.err = data.err]
             ELSE [st EXCEPT !.obj = [st.obj EXCEPT ![member] = data.s]])

ReadStringField(st, bytes, flags, flag, member) ==
    IF st.err # NoErr \/ ~FlagSet(flags, flag)
    THEN st
    ELSE Bind(readStringWithPrependedLength(bytes, st.nextLocation), LAMBDA data :
             IF data.err # NoErr
             THEN [st EXCEPT !.err = data.err]
             ELSE [err |-> NoErr,
                   obj |-> [st.obj EXCEPT ![member] = data.s],
                   nextLocation |-> data.next])

ReadCustomIconPathOnly(st, bytes, flags) ==
    IF st.err # NoErr \/ ~FlagSet(flags, HasCustomIcon)
    THEN st
    ELSE Bind(readStringWithPrependedLength(bytes, st.nextLocation), LAMBDA data :
             IF data.err # NoErr
             THEN [st EXCEPT !.err = data.err]
             ELSE [st EXCEPT !.obj = [st.obj EXCEPT !.iconPath = data.s]])

ReadCustomIcon(st, bytes, flags) ==
    IF st.err # NoErr \/ ~FlagSet(flags, HasCustomIcon)
    THEN st
    ELSE Bind(readStringWithPrependedLength(bytes, st.nextLocation), LAMBDA data :
             IF data.err # NoErr
             THEN [st EXCEPT !.err = data.err]
             ELSE
             Bind([st.obj EXCEPT !.iconPath = data.s], LAMBDA self1 :
             Bind(readInteger(bytes, 56, 4), LAMBDA index :
             IF index.err # NoErr
             THEN [st EXCEPT !.err = index.err, !.obj = self1]
             ELSE [st EXCEPT !.obj = [self1 EXCEPT !.iconIndex = index.v]])))

AdditionalInfo(self, bytes, start) ==
    Bind(readInteger(bytes, 20, 1), LAMBDA flags :
    IF flags.err # NoErr THEN [err |-> flags.err, obj |-> self]
    ELSE
    Bind(readInteger(bytes, start, 4), LAMBDA size :
    IF size.err # NoErr THEN [err |-> size.err, obj |-> self]
    ELSE
    Bind([err |-> NoErr, obj |-> self, nextLocation |-> ToSizeT(Add32(start, size.v))],
         LAMBDA st0 :
    Bind(ReadStringField(st0, bytes, flags.v, HasDescription, "description"),
         LAMBDA st1 :
    Bind(ReadStringField(st1, bytes, flags.v, HasRelativePath, "relativeTargetPath"),
         LAMBDA st2 :
    Bind(ReadStringField(st2, bytes, flags.v, HasWorkingDirectory, "workingDirectory"),
         LAMBDA st3 :
    Bind(ReadStringField(st3, bytes, flags.v, HasCommandLineArgs, "commandLineArgs"),
         LAMBDA st4 :
    Bind(ReadCustomIcon(st4, bytes, flags.v), LAMBDA st5 :
    [err |-> st5.err, obj |-> st5.obj]))))))))

(***************************************************************************)
(* refresh().  content is what the file system holds at the object's path: *)
(* whether the file opens (file.good()) and its bytes.  The result is the  *)
(* exception thrown (with its message), if any, and the object as the call *)
(* leaves it.  Decode is refresh() from "Check the headers" on.            *)
(***************************************************************************)
NoFile == [missing |-> TRUE]

Thrown(err) ==
    IF err = InvalidLnkFile THEN "Index out of range"
    ELSE IF err = OutOfRange THEN "vector::at"
    ELSE ""

Decode(self, bytes) ==
    Bind(CheckHeaders(bytes), LAMBDA headers :
    IF headers.err # NoErr
    THEN [err |-> headers.err, what |-> headers.what, obj |-> self]
    ELSE
    Bind(TargetInfo(self, bytes, headers.start), LAMBDA target :
    IF target.err # NoErr
    THEN [err |-> target.err, what |-> Thrown(target.err), obj |-> target.obj]
    ELSE
    Bind(PathAndVolume(target.obj, bytes, headers.start, headers.header), LAMBDA path :
    IF path.err # NoErr
    THEN [err |-> path.err, what |-> Thrown(path.err), obj |-> path.obj]
    ELSE
    Bind(AdditionalInfo(path.obj, bytes, headers.start), LAMBDA additional :
    [err |-> additional.err, what |-> Thrown(additional.err),
     obj |-> additional.obj]))))

refreshClearingOnOpenFailure(self, content) ==
    Bind(content, LAMBDA opened :
        IF ~opened.good
        THEN [err |-> IoError, what |-> "Failed to open file",
              obj |-> [self EXCEPT !.targetPath = <<>>]]
        ELSE Decode(self, opened.bytes))

refreshWithoutOpenCheck(self, content) ==
    Bind(content, LAMBDA file : Decode(self, file.bytes))

refresh(self, content) ==
    Bind(content, LAMBDA file :
        IF ~file.good
        THEN [err |-> IoError, what |-> "Failed to open file", obj |-> self]
        ELSE Decode(self, file.bytes))

(***************************************************************************)
(* The constructor: refresh() on the new object, then the absolute path.   *)
(* std::filesystem::absolute of a path whose file was just opened gives    *)
(* the path itself when it is absolute and else the path appended to the   *)
(* current directory (here the root), "." and ".." components left as they *)
(* are.  When refresh() throws, no object comes to exist.                  *)
(***************************************************************************)
IsAbsolutePath(filePath) == filePath # <<>> /\ filePath[1] = 47

Absolute(filePath) ==
    IF IsAbsolutePath(filePath) THEN filePath ELSE <<47>> \o filePath

Construct(filePath, garbage, content) ==
    Bind(refresh(NewObject(filePath, garbage), content), LAMBDA r :
        IF r.err # NoErr
        THEN [err |-> r.err, what |-> r.what, obj |-> NewObject(filePath, garbage)]
        ELSE [err |-> NoErr, what |-> "",
              obj |-> [r.obj EXCEPT !.absoluteFilePath = Absolute(filePath)]])

(***************************************************************************)
(* The files the model puts on disk.  BuildFile lays out a shortcut file   *)
(* from a description p of its fields, as Windows writes it: the 78-byte   *)
(* header, p.extra bytes of shell item list, the LinkInfo structure (its   *)
(* header is p.hdr bytes long), the volume table and the path (or the      *)
(* share name, the drive and the remainder), the Unicode path of the       *)
(* extended structure, and the string section.  A file descriptor d names  *)
(* BuildFile(d.p) with the byte at offset d.at replaced by d.byte (no byte *)
(* when d.at = -1) and cut to its first d.cut bytes (whole when            *)
(* d.cut = -1).  A descriptor [raw |-> bytes] names a file that holds      *)
(* exactly these bytes.                                                    *)
(***************************************************************************)
Zeros(n) == [k \in 1..n |-> 0]

LE16(v) == <<v % 256, (v \div 256) % 256>>

LE32(u) == LE16(u.lo) \o LE16(u.hi)

RECURSIVE Utf16Bytes(_)
Utf16Bytes(units) ==
    IF units = <<>> THEN <<>> ELSE LE16(Head(units)) \o Utf16Bytes(Tail(units))

StringField(units) == LE16(Len(units)) \o Utf16Bytes(units)

FileHeader(p) ==
    <<p.magic>> \o Zeros(19) \o <<p.flags>> \o Zeros(3) \o LE16(p.attrs) \o Zeros(26)
        \o LE32(p.size) \o LE32(p.icon) \o Zeros(16) \o LE16(p.extra)

VolumeTable(p) ==
    Zeros(4) \o LE32(p.vtype) \o LE32(p.serial) \o Zeros(4) \o p.vname \o <<0>>

LinkInfoBody(p) ==
    (IF p.net
     THEN Zeros(20) \o p.vname \o <<0>> \o p.drive \o <<0>> \o p.path \o <<0, 0>>
     ELSE VolumeTable(p) \o p.path \o <<0, 0>>)
    \o (IF p.hdr = 36 THEN Utf16Bytes(p.upath) \o <<0, 0>> ELSE <<>>)

LinkInfo(p) ==
    LET body == LinkInfoBody(p)
        hlen == IF p.hdr = 36 THEN 36 ELSE 28
    IN  LE32(U32Of(hlen + Len(body)))
        \o <<p.hdr, 0, 0, 0>>
        \o <<(IF p.net THEN 2 ELSE 1), 0, 0, 0>>
        \o LE32(U32Of(IF p.net THEN 0 ELSE hlen))
        \o LE32(U32Of(IF p.net THEN 0 ELSE hlen + Len(VolumeTable(p))))
        \o LE32(U32Of(IF p.net THEN hlen ELSE 0))
        \o Zeros(hlen - 24)
        \o body

StringSection(p) ==
    (IF FlagSet(p.flags, HasDescription) THEN StringField(p.strs[1]) ELSE <<>>)
    \o (IF FlagSet(p.flags, HasRelativePath) THEN StringField(p.strs[2]) ELSE <<>>)
    \o (IF FlagSet(p.flags, HasWorkingDirectory) THEN StringField(p.strs[3]) ELSE <<>>)
    \o (IF FlagSet(p.flags, HasCommandLineArgs) THEN StringField(p.strs[4]) ELSE <<>>)
    \o (IF FlagSet(p.flags, HasCustomIcon) THEN StringField(p.strs[5]) ELSE <<>>)

BuildFile(p) == FileHeader(p) \o Zeros(p.extra) \o LinkInfo(p) \o StringSection(p)

Content(d) ==
    IF d = NoFile THEN [good |-> FALSE, bytes |-> <<>>]
    ELSE IF "raw" \in DOMAIN d THEN [good |-> TRUE, bytes |-> d.raw]
    ELSE LET whole == BuildFile(d.p)
             patched == IF d.at = -1 THEN whole
                        ELSE [whole EXCEPT ![d.at + 1] = d.byte]
         IN  [good |-> TRUE,
              bytes |-> IF d.cut = -1 THEN patched ELSE SubSeq(patched, 1, d.cut)]

Whole(p) == [p |-> p, at |-> -1, byte |-> 0, cut |-> -1]

Patched(p, at, byte) == [p |-> p, at |-> at, byte |-> byte, cut |-> -1]

CutTo(p, cut) == [p |-> p, at |-> -1, byte |-> 0, cut |-> cut]

(***************************************************************************)
(* BasicShortcut: a local target C:\T on a hard drive named V, all five    *)
(* strings present.  The others vary it one aspect at a time.              *)
(***************************************************************************)
BasicShortcut ==
    [magic |-> 76, flags |-> 124, attrs |-> 32, size |-> U32Of(12), icon |-> U32Of(8),
     extra |-> 0, hdr |-> 28, net |-> FALSE, vtype |-> U32Of(HardDrive),
     serial |-> [hi |-> 28267, lo |-> 24931], vname |-> <<86>>,
     path |-> <<67, 58, 92, 84>>, upath |-> <<67, 58, 92, 84>>, drive |-> <<68, 58>>,
     strs |-> << <<65>>, <<46, 92, 84>>, <<67, 58>>, <<47, 118>>, <<105, 46>> >>]

PlainShortcut == [BasicShortcut EXCEPT !.flags = 0]

NetworkShortcut ==
    [BasicShortcut EXCEPT !.net = TRUE, !.path = <<84>>, !.flags = 12, !.attrs = 33,
                          !.strs = << <<66>>, <<92, 84>>, <<>>, <<>>, <<>> >>]

ExtendedShortcut ==
    [BasicShortcut EXCEPT !.hdr = 36, !.flags = 80, !.size = U32Of(16),
                          !.upath = <<67, 58, 92, 8364>>,
                          !.strs = << <<>>, <<>>, <<68, 58>>, <<>>, <<106>> >>]

(***************************************************************************)
(* The state.                                                              *)
(*   file  what the file system holds at the shortcut's path: a file       *)
(*         descriptor, or NoFile                                           *)
(*   obj   the LnkFileInfo objects of the caller, NoObj where there is none*)
(*   last  the last operation: its kind, the object it acted on and the    *)
(*         exception it threw                                              *)
(*   hist  for each object, the file it was constructed from and whether   *)
(*         every refresh() since then succeeded on that same file          *)
(*   call  the arguments of a call of one of the private readers           *)
(*   ret   what that call returned, NoRet before it has run                *)
(***************************************************************************)
VARIABLES file, obj, last, hist, call, ret

vars == <<file, obj, last, hist, call, ret>>

NoCall == [fn |-> "none"]

NoRet == [pending |-> TRUE]

NoObj == [none |-> TRUE]

ObjIds == {1, 2}

LnkPath == <<97, 46, 108, 110, 107>>

Garbage == {U32Of(0), [hi |-> 52685, lo |-> 52685]}

NoOp == [op |-> "none", id |-> 0, err |-> NoErr, what |-> ""]

NoHist == [src |-> NoFile, same |-> FALSE]

(***************************************************************************)
(* The shortcuts of the specification Spec: four valid ones, and five that *)
(* do not decode (wrong magic byte, empty, unrecognized structure size,    *)
(* cut inside the string section, cut inside the LinkInfo structure).      *)
(***************************************************************************)
Shortcuts ==
    {Whole(BasicShortcut), Whole(PlainShortcut), Whole(NetworkShortcut),
     Whole(ExtendedShortcut),
     Patched(BasicShortcut, 0, 77), CutTo(BasicShortcut, 0),
     Patched(PlainShortcut, 82, 0),
     CutTo(NetworkShortcut, Len(BuildFile(NetworkShortcut)) - 3),
     CutTo(ExtendedShortcut, 120)}

Init ==
    /\ file = NoFile
    /\ obj = [o \in ObjIds |-> NoObj]
    /\ last = NoOp
    /\ hist = [o \in ObjIds |-> NoHist]
    /\ call = NoCall
    /\ ret = NoRet

(***************************************************************************)
(* The environment replaces or deletes the file.                           *)
(***************************************************************************)
WriteFile(d) ==
    /\ d # file
    /\ file' = d
    /\ last' = [NoOp EXCEPT !.op = "write"]
    /\ UNCHANGED <<obj, hist, call, ret>>

DeleteFile ==
    /\ file # NoFile
    /\ file' = NoFile
    /\ last' = [NoOp EXCEPT !.op = "delete"]
    /\ UNCHANGED <<obj, hist, call, ret>>

(***************************************************************************)
(* LnkFileInfo o{path}: the constructor.  When it throws, o does not exist.*)
(***************************************************************************)
New(o) ==
    /\ obj[o] = NoObj
    /\ \E garbage \in Garbage :
          \E r \in {Construct(LnkPath, garbage, Content(file))} :
              /\ obj' = IF r.err = NoErr THEN [obj EXCEPT ![o] = r.obj] ELSE obj
              /\ hist' = IF r.err = NoErr
                         THEN [hist EXCEPT ![o] = [src |-> file, same |-> TRUE]]
                         ELSE hist
              /\ last' = [op |-> "new", id |-> o, err |-> r.err, what |-> r.what]
    /\ UNCHANGED <<file, call, ret>>

(***************************************************************************)
(* o.refresh().  An exception leaves the object as the call left it.       *)
(***************************************************************************)
Refresh(o) ==
    /\ obj[o] # NoObj
    /\ \E r \in {refresh(obj[o], Content(file))} :
           /\ obj' = [obj EXCEPT ![o] = r.obj]
           /\ hist' = [hist EXCEPT ![o].same = @ /\ r.err = NoErr /\ hist[o].src = file]
           /\ last' = [op |-> "refresh", id |-> o, err |-> r.err, what |-> r.what]
    /\ UNCHANGED <<file, call, ret>>

(***************************************************************************)
(* o goes out of scope.                                                    *)
(***************************************************************************)
Destroy(o) ==
    /\ obj[o] # NoObj
    /\ obj' = [obj EXCEPT ![o] = NoObj]
    /\ hist' = [hist EXCEPT ![o] = NoHist]
    /\ last' = [NoOp EXCEPT !.op = "destroy", !.id = o]
    /\ UNCHANGED <<file, call, ret>>

Next ==
    \/ \E d \in Shortcuts : WriteFile(d)
    \/ DeleteFile
    \/ New(1)
    \/ Refresh(1)
    \/ Destroy(1)

Spec == Init /\ [][Next]_vars

(***************************************************************************)
(* SpecDecode: the decoder on a wide family of buffers.  Object 1 was      *)
(* constructed from the basic shortcut; since then the file has been       *)
(* replaced by one of Buffers, and it stays as it is while the caller      *)
(* refreshes object 1 and constructs, refreshes and drops objects.         *)
(* Buffers holds, for shortcuts with 0..MaxExtraSize bytes of shell item   *)
(* list: the whole files, every proper prefix of the files whose last byte *)
(* the decoder reads, every value of the magic byte and every value of the *)
(* structure-size byte; and the missing file.                              *)
(***************************************************************************)
MaxExtraSize == 1

WithExtra(p, extra) == [p EXCEPT !.extra = extra]

WholeBases ==
    {WithExtra(p, e) : p \in {BasicShortcut, PlainShortcut, NetworkShortcut,
                              ExtendedShortcut},
                       e \in 0..MaxExtraSize}

CutBases ==
    {WithExtra(p, e) : p \in {BasicShortcut, NetworkShortcut, ExtendedShortcut},
                       e \in 0..MaxExtraSize}

Buffers ==
    {NoFile}
    \cup {Whole(p) : p \in WholeBases}
    \cup UNION {{CutTo(p, c) : c \in 0..(Len(BuildFile(p)) - 1)} : p \in CutBases}
    \cup {Patched(BasicShortcut, 0, b) : b \in 0..255}
    \cup UNION {{Patched(p, 78 + p.extra + 4, b) : b \in 0..255} :
                  p \in {BasicShortcut, WithExtra(ExtendedShortcut, MaxExtraSize)}}

InitDecode ==
    /\ file \in Buffers
    /\ obj = [o \in ObjIds |->
                IF o = 1
                THEN Construct(LnkPath, U32Of(0), Content(Whole(BasicShortcut))).obj
                ELSE NoObj]
    /\ last = NoOp
    /\ hist = [o \in ObjIds |->
                IF o = 1 THEN [src |-> Whole(BasicShortcut), same |-> TRUE] ELSE NoHist]
    /\ call = NoCall
    /\ ret = NoRet

NextDecode ==
    \/ \E o \in ObjIds : New(o)
    \/ \E o \in ObjIds : Refresh(o)
    \/ \E o \in ObjIds : Destroy(o)

SpecDecode == InitDecode /\ [][NextDecode]_vars

(***************************************************************************)
(* What the claims speak of: the bytes of the file as it is now, whether   *)
(* the last operation decoded it, and the object that operation acted on.  *)
(***************************************************************************)
Bytes == Content(file).bytes

Decoded == last.op \in {"new", "refresh"}

Readable == file # NoFile

(***************************************************************************)
(* C1.  Decoding (constructor or refresh()) a readable buffer whose byte 0 *)
(* is not 0x4C fails with InvalidLnkFile, whatever the rest of the buffer  *)
(* holds; this includes the empty buffer.                                  *)
(***************************************************************************)
C1_BadMagicIsInvalidLnkFile ==
    (Decoded /\ Readable /\ (Len(Bytes) = 0 \/ Bytes[1] # 76))
        => last.err = InvalidLnkFile

C1_Witness ==
    /\ last.op = "refresh"
    /\ Readable
    /\ Len(Bytes) > 100
    /\ Bytes[1] = 77
    /\ last.err = InvalidLnkFile
    /\ last.what = "Invalid header"

(***************************************************************************)
(* C2.  Decoding never asks the buffer for a byte at or past its end (the  *)
(* std::out_of_range of vector::at never arises), and a buffer that lacks  *)
(* a byte some read of the decoding needs - every proper prefix of a file  *)
(* whose last byte the decoder reads - fails with InvalidLnkFile ("Index   *)
(* out of range").                                                         *)
(***************************************************************************)
Truncated == Readable /\ file.cut # -1

C2_TruncatedIsInvalidLnkFile ==
    Decoded =>
        /\ last.err # OutOfRange
        /\ Truncated => (last.err = InvalidLnkFile /\ last.what = "Index out of range")

C2_Witness ==
    /\ last.op = "new"
    /\ Truncated
    /\ file.cut = Len(BuildFile(file.p)) - 1
    /\ last.err = InvalidLnkFile

(***************************************************************************)
(* C3.  With a valid magic byte and the structure-size byte (the byte at   *)
(* the decoder's LinkInfo start + 4) inside the buffer: if that byte is    *)
(* neither 0x1C nor 0x24 the decode fails with InvalidLnkFile, and if it   *)
(* is one of the two the structure-size check does not fail.               *)
(***************************************************************************)
StructureSizeOffset == StartOf(LittleEndian(Bytes, 76, 2)) + 4

StructureSizeReadable ==
    /\ Readable
    /\ Len(Bytes) >= 78
    /\ Bytes[1] = 76
    /\ StructureSizeOffset < Len(Bytes)

C3_StructureSizeChecked ==
    (Decoded /\ StructureSizeReadable) =>
        LET structureSize == Bytes[StructureSizeOffset + 1]
        IN  IF structureSize \in {28, 36}
            THEN last.what # "Invalid fileinfo header"
            ELSE last.err = InvalidLnkFile /\ last.what = "Invalid fileinfo header"

C3_Witness ==
    /\ Decoded
    /\ StructureSizeReadable
    /\ Bytes[StructureSizeOffset + 1] = 37
    /\ last.err = InvalidLnkFile

C5_FailedRefreshChangesNothing ==
    [][(last'.op = "refresh" /\ last'.err # NoErr) => obj' = obj]_vars

(***************************************************************************)
(* C6.  After refresh() succeeds, every member holds what a fresh decode   *)
(* of the current file gives, where the members the file does not set are  *)
(* empty strings and a zero icon index, whatever the object held before.   *)
(***************************************************************************)
FreshDecode == Construct(LnkPath, U32Of(0), Content(file)).obj

C6_RefreshEqualsFreshDecode ==
    (last.op = "refresh" /\ last.err = NoErr) => obj[last.id] = FreshDecode

(***************************************************************************)
(* C7.  Two objects decoded from the same valid buffer (each constructed   *)
(* from it, and refreshed since only on the unchanged file) hold identical *)
(* values in every member.                                                 *)
(***************************************************************************)
C7_SameBufferSameResult ==
    \A a, b \in ObjIds :
        (/\ obj[a] # NoObj /\ hist[a].same
         /\ obj[b] # NoObj /\ hist[b].same
         /\ hist[a].src = hist[b].src)
            => obj[a] = obj[b]

(***************************************************************************)
(* C8.  After a successful decode of a file whose custom-icon flag (0x40   *)
(* of the byte at offset 20) is unset, the icon index is 0 and the icon    *)
(* path is empty, also on an object just constructed.                      *)
(***************************************************************************)
C8_NoCustomIconMeansZeroIndex ==
    (Decoded /\ last.err = NoErr /\ ~FlagSet(Bytes[21], HasCustomIcon))
        => (obj[last.id].iconIndex = U32Of(0) /\ obj[last.id].iconPath = <<>>)

(***************************************************************************)
(* SpecReaders: the private readers as pure functions.  Init draws the     *)
(* arguments of one call and an action makes the call.                     *)
(*                                                                         *)
(* A call of readStringWithPrependedLength reads a field (count, units)    *)
(* that stands at offset pad of a buffer and is followed by tail.  A call  *)
(* of readFixedLengthString is the call refresh() makes for a Latin-1 path *)
(* of n characters at offset 0: offset n, length 2n, the UTF-16 units      *)
(* standing after the path's terminator and the byte after it, followed by *)
(* tail.  units and cp (the code point the units encode, or -1) say how    *)
(* the buffer was built.                                                   *)
(***************************************************************************)
MaxUnits == 3

UnitAlphabet == {65, 8364, 55296, 56319, 56320, 57343}

CodePointStride == 4099

CodePoints ==
    ({0, 65, 127, 128, 255, 2047, 2048, 8364, 55295, 57344, 65533, 65535, 65536,
      128522, 1114111}
     \cup {k * CodePointStride : k \in 0..271})
    \ (55296..57343)

Utf16Of(cp) ==
    IF cp < 65536 THEN <<cp>>
    ELSE <<55296 + ((cp - 65536) \div 1024), 56320 + ((cp - 65536) % 1024)>>

UnitStrings == UNION {[1..n -> UnitAlphabet] : n \in 0..MaxUnits}

Tails == {<<>>, <<0>>, <<0, 0>>, LE16(56320), LE16(65)}

PrependedCall(pad, units, tail, cp) ==
    [fn |-> "readStringWithPrependedLength",
     bytes |-> Zeros(pad) \o StringField(units) \o tail,
     i |-> pad, offset |-> 0, length |-> 0, units |-> units, cp |-> cp]

FixedCall(units, tail) ==
    [fn |-> "readFixedLengthString",
     bytes |-> [k \in 1..Len(units) |-> 65] \o <<0, 0>> \o Utf16Bytes(units) \o tail,
     i |-> 0, offset |-> Len(units), length |-> 2 * Len(units), units |-> units,
     cp |-> -1]

MaxLatin1 == 3

Latin1Alphabet == {65, 127, 128, 233, 255}

Latin1Strings == UNION {[1..n -> Latin1Alphabet] : n \in 0..MaxLatin1}

NullTerminatedCall(before, string, after) ==
    [fn |-> "readNullTerminatedString",
     bytes |-> before \o string \o after,
     i |-> Len(before), offset |-> 0, length |-> 0, units |-> <<>>, cp |-> -1]

MaxBytes == 4

ByteAlphabet == {0, 1, 128, 255}

ByteStrings == UNION {[1..n -> ByteAlphabet] : n \in 0..MaxBytes}

IntegerCall(bytes, i, w) ==
    [fn |-> "readInteger", bytes |-> bytes, i |-> i, w |-> w,
     offset |-> 0, length |-> 0, units |-> <<>>, cp |-> -1]

ReaderCalls ==
    {PrependedCall(0, Utf16Of(cp), <<>>, cp) : cp \in CodePoints}
    \cup {PrependedCall(pad, units, tail, -1) :
            pad \in {0, 1}, units \in UnitStrings, tail \in {<<>>, LE16(56320)}}
    \cup {FixedCall(units, tail) : units \in UnitStrings, tail \in Tails}
    \cup {NullTerminatedCall(before, string, after) :
            before \in {<<>>, <<0>>, <<66>>}, string \in Latin1Strings,
            after \in {<<>>, <<0>>, <<0, 66>>}}
    \cup {IntegerCall(bytes, i, w) :
            bytes \in ByteStrings, i \in 0..MaxBytes, w \in {1, 2, 4}}

InitReaders ==
    /\ call \in ReaderCalls
    /\ ret = NoRet
    /\ file = NoFile
    /\ obj = [o \in ObjIds |-> NoObj]
    /\ last = NoOp
    /\ hist = [o \in ObjIds |-> NoHist]

CallReadStringWithPrependedLength ==
    /\ call.fn = "readStringWithPrependedLength"
    /\ ret = NoRet
    /\ ret' = readStringWithPrependedLength(call.bytes, call.i)
    /\ UNCHANGED <<file, obj, last, hist, call>>

CallReadFixedLengthString ==
    /\ call.fn = "readFixedLengthString"
    /\ ret = NoRet
    /\ ret' = readFixedLengthString(call.bytes, call.offset, call.length)
    /\ UNCHANGED <<file, obj, last, hist, call>>

CallReadNullTerminatedString ==
    /\ call.fn = "readNullTerminatedString"
    /\ ret = NoRet
    /\ ret' = readNullTerminatedString(call.bytes, call.i)
    /\ UNCHANGED <<file, obj, last, hist, call>>

CallReadInteger ==
    /\ call.fn = "readInteger"
    /\ ret = NoRet
    /\ ret' = readInteger(call.bytes, call.i, call.w)
    /\ UNCHANGED <<file, obj, last, hist, call>>

NextReaders ==
    \/ CallReadStringWithPrependedLength
    \/ CallReadFixedLengthString
    \/ CallReadNullTerminatedString
    \/ CallReadInteger

SpecReaders == InitReaders /\ [][NextReaders]_vars

Returned == ret # NoRet

(***************************************************************************)
(* C9.  For every code point U+0000..U+10FFFF that is not a surrogate, a   *)
(* length-prefixed field that holds exactly its UTF-16 encoding (count 1   *)
(* or 2) is decoded by readStringWithPrependedLength to exactly the        *)
(* standard UTF-8 encoding of the code point.                              *)
(***************************************************************************)
StandardUtf8(cp) ==
    IF cp < 128 THEN <<cp>>
    ELSE IF cp < 2048 THEN <<192 + (cp \div 64), 128 + (cp % 64)>>
    ELSE IF cp < 65536
    THEN <<224 + (cp \div 4096), 128 + ((cp \div 64) % 64), 128 + (cp % 64)>>
    ELSE <<240 + (cp \div 262144), 128 + ((cp \div 4096) % 64),
           128 + ((cp \div 64) % 64), 128 + (cp % 64)>>

C9_Utf16RoundTrip ==
    (Returned /\ call.cp # -1) => (ret.err = NoErr /\ ret.s = StandardUtf8(call.cp))

(***************************************************************************)
(* C10.  In a UTF-16 string field, a high surrogate that is not followed   *)
(* by a low surrogate, a high surrogate in the last code unit of the field *)
(* and a low surrogate that no high surrogate precedes each decode to      *)
(* EF BF BD and take 2 source bytes; the decode does not fail, and the     *)
(* code unit after it is decoded on its own.                               *)
(***************************************************************************)
IsHighSurrogate(u) == u \in 55296..56319

IsLowSurrogate(u) == u \in 56320..57343

FieldStart == IF call.fn = "readFixedLengthString" THEN call.offset + 2 ELSE call.i + 2

UnitOffset(j) == FieldStart + 2 * (j - 1)

LoneSurrogate(j) ==
    LET units == call.units
    IN  \/ IsLowSurrogate(units[j]) /\ (j = 1 \/ ~IsHighSurrogate(units[j - 1]))
        \/ IsHighSurrogate(units[j]) /\ j < Len(units) /\ ~IsLowSurrogate(units[j + 1])
        \/ IsHighSurrogate(units[j]) /\ j = Len(units)

DecodedAsReplacement(j) ==
    \E k \in DOMAIN ret.calls :
        /\ ret.calls[k].i = UnitOffset(j)
        /\ ret.calls[k].s = <<239, 191, 189>>
        /\ ret.calls[k].bytesRead = 2
        /\ j < Len(call.units) =>
              (k < Len(ret.calls) /\ ret.calls[k + 1].i = UnitOffset(j + 1))

C10_LoneSurrogateIsReplaced ==
    Returned =>
        \A j \in DOMAIN call.units :
            LoneSurrogate(j) => (ret.err = NoErr /\ DecodedAsReplacement(j))

C10_LoneSurrogateInPrependedField ==
    (Returned /\ call.fn = "readStringWithPrependedLength") =>
        \A j \in DOMAIN call.units :
            LoneSurrogate(j) => (ret.err = NoErr /\ DecodedAsReplacement(j))

(***************************************************************************)
(* C11.  A valid surrogate pair (a high surrogate followed by a low        *)
(* surrogate) in a UTF-16 string field decodes to the 4-byte UTF-8         *)
(* encoding of ((high & 0x3FF) << 10 | (low & 0x3FF)) + 0x10000 and takes  *)
(* 4 source bytes, wherever in the field the pair stands.                  *)
(***************************************************************************)
ValidPair(j) ==
    /\ j < Len(call.units)
    /\ IsHighSurrogate(call.units[j])
    /\ IsLowSurrogate(call.units[j + 1])

PairCodePoint(j) ==
    (call.units[j] % 1024) * 1024 + (call.units[j + 1] % 1024) + 65536

DecodedAsPair(j) ==
    \E k \in DOMAIN ret.calls :
        /\ ret.calls[k].i = UnitOffset(j)
        /\ ret.calls[k].s = StandardUtf8(PairCodePoint(j))
        /\ ret.calls[k].bytesRead = 4

C11_ValidPairDecodes ==
    (Returned /\ call.units # <<>>) =>
        \A j \in DOMAIN call.units :
            ValidPair(j) => (ret.err = NoErr /\ DecodedAsPair(j))

C11_ValidPairBeforeLastTwoUnits ==
    (Returned /\ call.fn = "readStringWithPrependedLength") =>
        \A j \in DOMAIN call.units :
            (ValidPair(j) /\ j + 1 < Len(call.units))
                => (ret.err = NoErr /\ DecodedAsPair(j))

(***************************************************************************)
(* C12.  readStringWithPrependedLength at offset i with count n returns    *)
(* i + 2 + 2n as the next offset, whatever the field holds: surrogate      *)
(* pairs and malformed surrogates do not shift it.                         *)
(***************************************************************************)
C12_NextOffsetIsPastField ==
    (Returned /\ call.fn = "readStringWithPrependedLength") =>
        (ret.err = NoErr /\ ret.next = call.i + 2 + 2 * Len(call.units))

C12_Witness ==
    /\ Returned
    /\ call.fn = "readStringWithPrependedLength"
    /\ call.i = 1
    /\ call.units = <<55296, 56320, 56320>>
    /\ Len(call.bytes) > call.i + 2 + 2 * Len(call.units)
    /\ ret.next = 9

(***************************************************************************)
(* C18.  readNullTerminatedString at offset i returns the UTF-8 encoding   *)
(* of the Latin-1 bytes from i up to, not including, the first zero byte:  *)
(* a byte below 0x80 is copied, a byte b >= 0x80 becomes 0xC0 | (b >> 6),  *)
(* 0x80 | (b & 0x3F); with no zero byte before the end of the buffer it    *)
(* fails with InvalidLnkFile.                                              *)
(***************************************************************************)
HasZeroFrom(bytes, i) == \E n \in (i + 1)..Len(bytes) : bytes[n] = 0

FirstZeroFrom(bytes, i) ==
    CHOOSE n \in (i + 1)..Len(bytes) :
        bytes[n] = 0 /\ \A m \in (i + 1)..(n - 1) : bytes[m] # 0

Utf8OfLatin1Byte(b) ==
    IF b < 128 THEN <<b>> ELSE <<192 + (b \div 64), 128 + (b % 64)>>

RECURSIVE Utf8OfLatin1(_, _, _)
Utf8OfLatin1(bytes, from, to) ==
    IF from > to THEN <<>>
    ELSE Utf8OfLatin1Byte(bytes[from]) \o Utf8OfLatin1(bytes, from + 1, to)

C18_NullTerminatedLatin1 ==
    (Returned /\ call.fn = "readNullTerminatedString") =>
        IF HasZeroFrom(call.bytes, call.i)
        THEN /\ ret.err = NoErr
             /\ ret.s = Utf8OfLatin1(call.bytes, call.i + 1,
                                     FirstZeroFrom(call.bytes, call.i) - 1)
        ELSE ret.err = InvalidLnkFile

C18_Witness ==
    /\ Returned
    /\ call.fn = "readNullTerminatedString"
    /\ call.bytes = <<66, 65, 233, 255, 0, 66>>
    /\ call.i = 1
    /\ ret.err = NoErr
    /\ ret.s = <<65, 195, 169, 195, 191>>

(***************************************************************************)
(* C19.  readInteger<T>(buffer, offset) for 1-, 2- and 4-byte unsigned T   *)
(* returns the little-endian value, the sum over j of                      *)
(* buffer[offset + j] * 256^j, when offset + sizeof(T) <= buffer length,   *)
(* fails when offset + sizeof(T) > buffer length, and changes neither the  *)
(* buffer nor the object.  A 4-byte value is compared as its two 16-bit    *)
(* halves.                                                                 *)
(***************************************************************************)
ByteAt(bytes, offset, j) == bytes[offset + j + 1]

LittleEndianValue(bytes, offset, w, v) ==
    CASE w = 1 -> v = ByteAt(bytes, offset, 0)
      [] w = 2 -> v = ByteAt(bytes, offset, 0) + ByteAt(bytes, offset, 1) * 256
      [] w = 4 -> /\ v.lo = ByteAt(bytes, offset, 0) + ByteAt(bytes, offset, 1) * 256
                  /\ v.hi = ByteAt(bytes, offset, 2) + ByteAt(bytes, offset, 3) * 256

C19_ReadIntegerLittleEndian ==
    [][(call.fn = "readInteger" /\ ret = NoRet) =>
          /\ IF call.i + call.w <= Len(call.bytes)
             THEN /\ ret'.err = NoErr
                  /\ LittleEndianValue(call.bytes, call.i, call.w, ret'.v)
             ELSE ret'.err # NoErr
          /\ UNCHANGED <<call, obj, file>>]_vars

C19_Witness ==
    /\ Returned
    /\ call.fn = "readInteger"
    /\ call.bytes = <<0, 1, 128, 255>>
    /\ call.i = 0
    /\ call.w = 4
    /\ ret.err = NoErr
    /\ ret.v = [hi |-> 65408, lo |-> 256]

(***************************************************************************)
(* SpecFields: the decoder on well-formed files that differ in what they   *)
(* store.  Object 1 was constructed from the basic shortcut; the file has  *)
(* since been replaced by one of FieldFiles and stays as it is while the   *)
(* caller refreshes, drops and constructs object 1.  FieldFiles holds      *)
(*   - every combination of the five string flags, with two choices of the *)
(*     strings, in the local and the network branch, with the legacy and   *)
(*     the extended structure, with and without a shell item list;         *)
(*   - attribute words with each single bit, no bit and many bits;         *)
(*   - an empty icon location with the custom-icon flag set;               *)
(*   - icon indexes, with and without the custom-icon flag;                *)
(*   - volume types, serials and target sizes;                             *)
(*   - volume names, drives and paths with bytes of 0x80 and more.         *)
(***************************************************************************)
ReadOnly == 1
Hidden == 2
System == 4
VolumeLabel == 8
Directory == 16
Archive == 32
NtfsEfs == 64
Normal == 128
Temporary == 256
Sparse == 512
ReparsePointData == 1024
Compressed == 2048
Offline == 4096

Attributes ==
    {ReadOnly, Hidden, System, VolumeLabel, Directory, Archive, NtfsEfs, Normal,
     Temporary, Sparse, ReparsePointData, Compressed, Offline}

hasCustomIcon(self) == self.iconPath # <<>>

targetHasAttributeEqual(self, attribute) == self.targetAttributes = attribute

targetHasAttribute(self, attribute) == BitAnd(self.targetAttributes, attribute) # 0

NetworkExtendedShortcut ==
    [NetworkShortcut EXCEPT !.hdr = 36, !.upath = <<68, 58, 92, 84>>]

FieldBases ==
    {BasicShortcut, NetworkShortcut, ExtendedShortcut, NetworkExtendedShortcut}

FieldFlags == {4 * k : k \in 0..31}

OtherStrings == << <<>>, <<55357, 56842, 65>>, <<233>>, <<8364, 66>>, <<105>> >>

WithStrings(p, flags, strs) == [p EXCEPT !.flags = flags, !.strs = strs]

AttributeWords == {0, 33, 4097, 8191, 32768, 65535} \cup {Pow2(k) : k \in 0..15}

IconIndexes ==
    {U32Of(0), U32Of(8), U32Of(65536), [hi |-> 32768, lo |-> 0],
     [hi |-> 65535, lo |-> 65535]}

VolumeTypeWords ==
    {U32Of(t) : t \in {0, 1, 2, 3, 4, 5, 6, 7, 255, 256, 259}}
    \cup {[hi |-> 1, lo |-> 3]}

Serials == {U32Of(0), [hi |-> 28267, lo |-> 24931], [hi |-> 65535, lo |-> 65535]}

Latin1Names == {<<86>>, <<233>>, <<>>}

Latin1Drives == {<<68, 58>>, <<233, 58>>}

Latin1Paths == {<<67, 58, 92, 84>>, <<67, 58, 92, 233>>, <<233>>}

FieldFiles ==
    {Whole(WithExtra(WithStrings(p, flags, strs), extra)) :
        p \in FieldBases, flags \in FieldFlags,
        strs \in {BasicShortcut.strs, OtherStrings}, extra \in {0, MaxExtraSize}}
    \cup {Whole([BasicShortcut EXCEPT !.attrs = a]) : a \in AttributeWords}
    \cup {Whole([p EXCEPT !.flags = flags, !.strs[5] = <<>>]) :
            p \in FieldBases, flags \in {64, 124}}
    \cup {Whole(WithExtra([p EXCEPT !.icon = i, !.flags = flags], MaxExtraSize)) :
            p \in {BasicShortcut, ExtendedShortcut}, i \in IconIndexes,
            flags \in {0, 64, 124}}
    \cup {Whole([BasicShortcut EXCEPT !.vtype = t, !.serial = n, !.size = n]) :
            t \in VolumeTypeWords, n \in Serials}
    \cup {Whole([p EXCEPT !.vname = name, !.drive = drive, !.path = path,
                          !.upath = IF p.net THEN drive \o <<92>> \o path
                                    ELSE path]) :
            p \in FieldBases, name \in Latin1Names, drive \in Latin1Drives,
            path \in Latin1Paths}

InitFields ==
    /\ file \in FieldFiles
    /\ obj = [o \in ObjIds |->
                IF o = 1
                THEN Construct(LnkPath, U32Of(0), Content(Whole(BasicShortcut))).obj
                ELSE NoObj]
    /\ last = NoOp
    /\ hist = [o \in ObjIds |->
                IF o = 1 THEN [src |-> Whole(BasicShortcut), same |-> TRUE] ELSE NoHist]
    /\ call = NoCall
    /\ ret = NoRet

NextFields ==
    \/ New(1)
    \/ Refresh(1)
    \/ Destroy(1)

SpecFields == InitFields /\ [][NextFields]_vars

(***************************************************************************)
(* What the claims about the fields speak of: the last operation decoded   *)
(* the file, the object it acted on, and the integers and strings that     *)
(* stand at an offset of the file.                                         *)
(***************************************************************************)
Succeeded == Decoded /\ last.err = NoErr

Subject == obj[last.id]

U16At(offset) == Bytes[offset + 1] + 256 * Bytes[offset + 2]

U32At(offset) == [hi |-> U16At(offset + 2), lo |-> U16At(offset)]

OffsetAt(offset) == U16At(offset + 2) * 65536 + U16At(offset)

BitSetAt(offset, bit) == (Bytes[offset + 1] \div bit) % 2 = 1

LinkInfoStart == 78 + U16At(76)

EndOfStringAt(offset) == FirstZeroFrom(Bytes, offset) - 1

Latin1At(offset) == Utf8OfLatin1(Bytes, offset + 1, EndOfStringAt(offset))

(***************************************************************************)
(* C13.  The string section is read in the order description, relative    *)
(* path, working directory, command-line arguments, icon location.  The    *)
(* first present field starts at linkInfoStart + the uint32 at             *)
(* linkInfoStart, each later present field starts at the end offset of the *)
(* previous present field, and a field whose flag is unset neither moves   *)
(* the running offset nor is read: its member keeps the value it had.      *)
(***************************************************************************)
FieldFlag == <<HasDescription, HasRelativePath, HasWorkingDirectory,
               HasCommandLineArgs, HasCustomIcon>>

FieldMember == <<"description", "relativeTargetPath", "workingDirectory",
                 "commandLineArgs", "iconPath">>

FieldPresent(k) == BitSetAt(20, FieldFlag[k])

RECURSIVE FieldOffset(_)
FieldOffset(k) ==
    IF k = 1 THEN LinkInfoStart + OffsetAt(LinkInfoStart)
    ELSE IF FieldPresent(k - 1)
    THEN FieldOffset(k - 1) + 2 + 2 * U16At(FieldOffset(k - 1))
    ELSE FieldOffset(k - 1)

C13_StringSectionChained ==
    [][(Decoded' /\ last'.err = NoErr) =>
          \A k \in 1..5 :
              obj'[last'.id][FieldMember[k]] =
                  IF FieldPresent(k)
                  THEN readStringWithPrependedLength(Bytes, FieldOffset(k)).s
                  ELSE IF last'.op = "new" THEN <<>>
                  ELSE obj[last'.id][FieldMember[k]]]_vars

C13_Witness ==
    /\ Succeeded
    /\ last.op = "refresh"
    /\ file.p.flags = 84
    /\ file.p.strs = OtherStrings
    /\ file.p.extra = MaxExtraSize
    /\ Subject.description = <<>>
    /\ Subject.relativeTargetPath = <<46, 92, 84>>
    /\ Subject.workingDirectory = <<195, 169>>
    /\ Subject.commandLineArgs = <<47, 118>>
    /\ Subject.iconPath = <<105>>

(***************************************************************************)
(* C14.  When the custom-icon flag is set, the icon index is the uint32 at *)
(* absolute offset 56 of the buffer, whatever the LinkInfo start, the      *)
(* structure-size variant, the other flags and the lengths of the string   *)
(* fields before the icon location are.                                    *)
(***************************************************************************)
C14_IconIndexAtOffset56 ==
    (Succeeded /\ BitSetAt(20, HasCustomIcon)) => Subject.iconIndex = U32At(56)

C14_Witness ==
    /\ Succeeded
    /\ file.p.hdr = 36
    /\ file.p.extra = MaxExtraSize
    /\ file.p.flags = 124
    /\ file.p.icon = [hi |-> 65535, lo |-> 65535]
    /\ Subject.iconIndex = [hi |-> 65535, lo |-> 65535]

(***************************************************************************)
(* Where the LinkInfo structure of the file keeps its parts.               *)
(***************************************************************************)
NetworkBit == BitSetAt(LinkInfoStart + 8, 2)

StructureSize == Bytes[LinkInfoStart + 4 + 1]

NetworkNameAt == LinkInfoStart + OffsetAt(LinkInfoStart + 20) + 20

NetworkDriveAt == EndOfStringAt(NetworkNameAt) + 1

NetworkRemainderAt == EndOfStringAt(NetworkDriveAt) + 1

LocalVolumeAt == LinkInfoStart + OffsetAt(LinkInfoStart + 12)

LocalPathAt == LinkInfoStart + OffsetAt(LinkInfoStart + 16)

StoredLength(offset) == EndOfStringAt(offset) - offset

IsAscii(offset) == \A n \in (offset + 1)..EndOfStringAt(offset) : Bytes[n] < 128

(***************************************************************************)
(* C15.  When bit 0x02 of the byte at linkInfoStart + 8 is set, a          *)
(* successful decode reports targetIsOnNetwork true, volume type           *)
(* NetworkDrive, serial 0, the volume name equal to the null-terminated    *)
(* string at volumeOffset + 20, and the target path equal to the next      *)
(* null-terminated string (drive), one backslash and the null-terminated   *)
(* string after that (remainder).                                          *)
(***************************************************************************)
NetworkFieldsReported ==
    /\ Subject.targetIsOnNetwork
    /\ Subject.targetVolumeType = NetworkDrive
    /\ Subject.targetVolumeSerial = U32Of(0)
    /\ Subject.targetVolumeName = Latin1At(NetworkNameAt)
    /\ Subject.targetPath =
          Latin1At(NetworkDriveAt) \o <<92>> \o Latin1At(NetworkRemainderAt)

C15_NetworkBranch == (Succeeded /\ NetworkBit) => NetworkFieldsReported

C15_NetworkBranchLegacyAscii ==
    (/\ Succeeded /\ NetworkBit /\ StructureSize = 28
     /\ IsAscii(NetworkNameAt) /\ IsAscii(NetworkDriveAt))
        => NetworkFieldsReported

(***************************************************************************)
(* C16.  When the network bit is clear and the structure is the legacy one *)
(* (0x1C), a successful decode reports volume type = uint32 at             *)
(* volumeOffset + 4, serial = uint32 at volumeOffset + 8, volume name =    *)
(* null-terminated string at volumeOffset + 16 (volumeOffset =             *)
(* linkInfoStart + uint32 at linkInfoStart + 12), target path =            *)
(* null-terminated string at linkInfoStart + uint32 at linkInfoStart + 16, *)
(* target size = uint32 at 52 and attributes = uint16 at 24.               *)
(***************************************************************************)
LocalFieldsReported ==
    /\ ~Subject.targetIsOnNetwork
    /\ Subject.targetVolumeSerial = U32At(LocalVolumeAt + 8)
    /\ Subject.targetVolumeName = Latin1At(LocalVolumeAt + 16)
    /\ Subject.targetPath = Latin1At(LocalPathAt)
    /\ Subject.targetSize = U32At(52)
    /\ Subject.targetAttributes = U16At(24)

C16_LocalLegacyFields ==
    (Succeeded /\ ~NetworkBit /\ StructureSize = 28) =>
        /\ U32Of(Subject.targetVolumeType) = U32At(LocalVolumeAt + 4)
        /\ LocalFieldsReported

C16_LocalLegacyFieldsLowByte ==
    (Succeeded /\ ~NetworkBit /\ StructureSize = 28) =>
        /\ Subject.targetVolumeType = Bytes[LocalVolumeAt + 4 + 1]
        /\ LocalFieldsReported

(***************************************************************************)
(* C17.  When the structure-size byte is 0x24, the reported target path is *)
(* the transcoding of the UTF-16 string that follows the Latin-1 path in   *)
(* the file (after the path's terminator and the byte after it), and the   *)
(* number of source bytes taken for it is 2 x the number of bytes of the   *)
(* Latin-1 path as stored in the file (in the network branch: drive,       *)
(* backslash, remainder); in the local and in the network branch, and also *)
(* when the Latin-1 path holds bytes >= 0x80.                              *)
(***************************************************************************)
RECURSIVE TranscodeUtf16(_, _)
TranscodeUtf16(offset, count) ==
    IF count = 0 THEN <<>>
    ELSE IF offset + 2 > Len(Bytes) THEN <<-1>>
    ELSE IF /\ count >= 2
            /\ offset + 4 <= Len(Bytes)
            /\ IsHighSurrogate(U16At(offset))
            /\ IsLowSurrogate(U16At(offset + 2))
    THEN StandardUtf8((U16At(offset) % 1024) * 1024 + (U16At(offset + 2) % 1024)
                      + 65536)
         \o TranscodeUtf16(offset + 4, count - 2)
    ELSE IF IsHighSurrogate(U16At(offset)) \/ IsLowSurrogate(U16At(offset))
    THEN <<239, 191, 189>> \o TranscodeUtf16(offset + 2, count - 1)
    ELSE StandardUtf8(U16At(offset)) \o TranscodeUtf16(offset + 2, count - 1)

StoredPathLength ==
    IF NetworkBit
    THEN StoredLength(NetworkDriveAt) + 1 + StoredLength(NetworkRemainderAt)
    ELSE StoredLength(LocalPathAt)

UnicodePathAt ==
    EndOfStringAt(IF NetworkBit THEN NetworkRemainderAt ELSE LocalPathAt) + 2

C17_ExtendedPathFollowsLatin1 ==
    (Succeeded /\ StructureSize = 36) =>
        Subject.targetPath = TranscodeUtf16(UnicodePathAt, StoredPathLength)

C17_ExtendedPathLocalAscii ==
    (Succeeded /\ StructureSize = 36 /\ ~NetworkBit /\ IsAscii(LocalPathAt)) =>
        Subject.targetPath = TranscodeUtf16(UnicodePathAt, StoredPathLength)

(***************************************************************************)
(* C20.  After a successful decode, targetHasAttribute(a) is true exactly  *)
(* when the bit of a (one of the 13 attributes 0x0001..0x1000) is set in   *)
(* the uint16 stored at offset 24 of the file, independently for each a.   *)
(***************************************************************************)
C20_AttributeBits ==
    Succeeded =>
        \A a \in Attributes :
            targetHasAttribute(Subject, a) <=> ((U16At(24) \div a) % 2 = 1)

C20_Witness ==
    /\ Succeeded
    /\ U16At(24) = 4097
    /\ targetHasAttribute(Subject, Offline)
    /\ targetHasAttribute(Subject, ReadOnly)
    /\ ~targetHasAttribute(Subject, Archive)

(***************************************************************************)
(* C21.  After a successful decode of a file whose custom-icon flag (0x40) *)
(* is set, hasCustomIcon() is true and the icon path is non-empty; after a *)
(* successful decode of a file whose flag is unset, hasCustomIcon() is     *)
(* false.                                                                  *)
(***************************************************************************)
C21_HasCustomIconIffFlag ==
    Succeeded =>
        IF BitSetAt(20, HasCustomIcon)
        THEN hasCustomIcon(Subject) /\ Subject.iconPath # <<>>
        ELSE ~hasCustomIcon(Subject)

C21_HasCustomIconOnNewObject ==
    (Succeeded /\ last.op = "new") =>
        IF BitSetAt(20, HasCustomIcon)
        THEN U16At(FieldOffset(5)) # 0 =>
                (hasCustomIcon(Subject) /\ Subject.iconPath # <<>>)
        ELSE ~hasCustomIcon(Subject)

(***************************************************************************)
(* SpecEquality: two objects, constructed from paths, copied, moved,       *)
(* assigned, refreshed and dropped, while the file a.lnk is replaced and   *)
(* deleted.  The current directory is the root and holds a.lnk (the        *)
(* variable file) and b.lnk (a shortcut that never changes).  Paths are    *)
(* the ways the caller names them: a.lnk, ./a.lnk, /a.lnk and b.lnk.       *)
(* hist[o].path is the path given to the constructor the value of o came   *)
(* from; copies and moves carry it along.  A moved-from object holds       *)
(* unspecified strings: here either what it held or empty strings.         *)
(***************************************************************************)
PathA == LnkPath

PathDotA == <<46, 47>> \o LnkPath

PathRootA == <<47>> \o LnkPath

PathB == <<98, 46, 108, 110, 107>>

Paths == {PathA, PathDotA, PathRootA, PathB}

FileNameOf(filePath) ==
    IF IsAbsolutePath(filePath) THEN Tail(filePath)
    ELSE IF Len(filePath) >= 2 /\ SubSeq(filePath, 1, 2) = <<46, 47>>
    THEN SubSeq(filePath, 3, Len(filePath))
    ELSE filePath

OtherFile == Whole(ExtendedShortcut)

ContentAt(filePath) ==
    IF FileNameOf(filePath) = PathA THEN Content(file)
    ELSE IF FileNameOf(filePath) = PathB THEN Content(OtherFile)
    ELSE Content(NoFile)

operatorEq(self, other) == self.absoluteFilePath = other.absoluteFilePath

operatorNe(self, other) == ~operatorEq(self, other)

MovedFrom(self) ==
    [self EXCEPT !.filePath = <<>>, !.absoluteFilePath = <<>>, !.targetPath = <<>>,
                 !.targetVolumeName = <<>>, !.description = <<>>,
                 !.relativeTargetPath = <<>>, !.workingDirectory = <<>>,
                 !.commandLineArgs = <<>>, !.iconPath = <<>>]

MovedHist == [src |-> NoFile, same |-> FALSE, path |-> <<>>, moved |-> TRUE]

EqualityFiles ==
    {Whole(BasicShortcut), Whole(NetworkShortcut), Patched(BasicShortcut, 0, 77),
     Patched(PlainShortcut, 82, 0)}

InitEquality ==
    /\ file = Whole(BasicShortcut)
    /\ obj = [o \in ObjIds |-> NoObj]
    /\ last = NoOp
    /\ hist = [o \in ObjIds |-> NoHist]
    /\ call = NoCall
    /\ ret = NoRet

NewAt(o, filePath) ==
    /\ obj[o] = NoObj
    /\ \E garbage \in Garbage :
          \E r \in {Construct(filePath, garbage, ContentAt(filePath))} :
              /\ obj' = IF r.err = NoErr THEN [obj EXCEPT ![o] = r.obj] ELSE obj
              /\ hist' = IF r.err = NoErr
                         THEN [hist EXCEPT ![o] = [src |-> file, same |-> TRUE,
                                                   path |-> filePath, moved |-> FALSE]]
                         ELSE hist
              /\ last' = [op |-> "new", id |-> o, err |-> r.err, what |-> r.what]
    /\ UNCHANGED <<file, call, ret>>

RefreshAt(o) ==
    /\ obj[o] # NoObj
    /\ \E r \in {refresh(obj[o], ContentAt(obj[o].filePath))} :
           /\ obj' = [obj EXCEPT ![o] = r.obj]
           /\ hist' = [hist EXCEPT ![o].same = FALSE]
           /\ last' = [op |-> "refresh", id |-> o, err |-> r.err, what |-> r.what]
    /\ UNCHANGED <<file, call, ret>>

Copy(o, other) ==
    /\ o # other
    /\ obj[other] # NoObj
    /\ obj' = [obj EXCEPT ![o] = obj[other]]
    /\ hist' = [hist EXCEPT ![o] = hist[other]]
    /\ last' = [NoOp EXCEPT !.op = IF obj[o] = NoObj THEN "copy" ELSE "assign",
                            !.id = o]
    /\ UNCHANGED <<file, call, ret>>

Move(o, other) ==
    /\ o # other
    /\ obj[other] # NoObj
    /\ \E left \in {obj[other], MovedFrom(obj[other])} :
           obj' = [obj EXCEPT ![o] = obj[other], ![other] = left]
    /\ hist' = [hist EXCEPT ![o] = hist[other], ![other] = MovedHist]
    /\ last' = [NoOp EXCEPT !.op = IF obj[o] = NoObj THEN "move" ELSE "move-assign",
                            !.id = o]
    /\ UNCHANGED <<file, call, ret>>

NextEquality ==
    \/ \E d \in EqualityFiles : WriteFile(d)
    \/ DeleteFile
    \/ \E o \in ObjIds, filePath \in Paths : NewAt(o, filePath)
    \/ \E o \in ObjIds : RefreshAt(o)
    \/ \E o, other \in ObjIds : Copy(o, other)
    \/ \E o, other \in ObjIds : Move(o, other)
    \/ \E o \in ObjIds : Destroy(o)

SpecEquality == InitEquality /\ [][NextEquality]_vars

(***************************************************************************)
(* C22.  Two LnkFileInfo objects compare equal (operator==) exactly when   *)
(* they were constructed from the same LNK file path: a copy or a moved-to *)
(* object equals its source's original value, an assigned object equals    *)
(* the object assigned from, objects of different files are unequal, and   *)
(* operator!= is always the negation of operator==.  "The same LNK file    *)
(* path" is read as in the comment of operator==: the two paths refer to   *)
(* the same LNK file.  Moved-from objects are not spoken of.               *)
(***************************************************************************)
Live(o) == obj[o] # NoObj /\ ~hist[o].moved

SameLnkFile(a, b) == FileNameOf(hist[a].path) = FileNameOf(hist[b].path)

C22_EqualIffSameLnkFile ==
    \A a, b \in ObjIds :
        (Live(a) /\ Live(b)) =>
            /\ operatorEq(obj[a], obj[b]) <=> SameLnkFile(a, b)
            /\ operatorNe(obj[a], obj[b]) <=> ~operatorEq(obj[a], obj[b])

C22_EqualIffSameAbsolutePath ==
    \A a, b \in ObjIds :
        (Live(a) /\ Live(b)) =>
            /\ operatorEq(obj[a], obj[b])
                  <=> (Absolute(hist[a].path) = Absolute(hist[b].path))
            /\ operatorNe(obj[a], obj[b]) <=> ~operatorEq(obj[a], obj[b])
            /\ FileNameOf(hist[a].path) # FileNameOf(hist[b].path)
                  => ~operatorEq(obj[a], obj[b])

(***************************************************************************)
(* SpecOffsets: the decoder on files whose offset fields are large.        *)
(* OffsetFiles holds                                                       *)
(*   - whole shortcuts with 0..MaxExtraSize bytes of shell item list;      *)
(*   - shortcuts whose shell item list size (offset 76) is 65532..65535    *)
(*     and whose LinkInfo structure stands at offset 74..77, over the end  *)
(*     of the header: the structure's first bytes are the size field;      *)
(*   - shortcuts in which one uint32 offset field of the LinkInfo          *)
(*     structure (string-section start, volume offset, path offset,        *)
(*     network volume offset) is 2^32 - k or 65536 + k;                    *)
(*   - shortcuts whose size field at offset 76 has a high byte.            *)
(***************************************************************************)
Raw(bytes) == [raw |-> bytes]

Overwrite(bytes, at, patch) ==
    [n \in 1..Len(bytes) |->
        IF n > at /\ n <= at + Len(patch) THEN patch[n - at] ELSE bytes[n]]

LinkInfoOver(p, start) ==
    Raw(Overwrite(SubSeq(FileHeader(p), 1, start) \o LinkInfo(p), 76,
                  LE16(65536 + start - 78)))

Minus(k) == [hi |-> 65535, lo |-> 65536 - k]

PlainNetworkShortcut == [NetworkShortcut EXCEPT !.flags = 0]

OffsetFiles ==
    {Whole(WithExtra(p, extra)) : p \in FieldBases, extra \in 0..MaxExtraSize}
    \cup {LinkInfoOver(p, start) :
            p \in {PlainShortcut, PlainNetworkShortcut}, start \in 74..77}
    \cup {Raw(Overwrite(BuildFile(p), 78 + field, LE32(u))) :
            p \in {BasicShortcut, PlainShortcut}, field \in {0, 12, 16},
            u \in {Minus(50), Minus(48), Minus(44), [hi |-> 1, lo |-> 28]}}
    \cup {Raw(Overwrite(BuildFile(p), 78 + field, LE32(u))) :
            p \in {NetworkShortcut, PlainNetworkShortcut}, field \in {0, 20},
            u \in {Minus(50), Minus(48), Minus(44), [hi |-> 1, lo |-> 28]}}
    \cup {Patched(p, 77, b) : p \in {BasicShortcut, NetworkShortcut}, b \in {1, 255}}

InitOffsets ==
    /\ file \in OffsetFiles
    /\ obj = [o \in ObjIds |-> NoObj]
    /\ last = NoOp
    /\ hist = [o \in ObjIds |-> NoHist]
    /\ call = NoCall
    /\ ret = NoRet

NextOffsets ==
    \/ New(1)
    \/ Refresh(1)
    \/ Destroy(1)

SpecOffsets == InitOffsets /\ [][NextOffsets]_vars

(***************************************************************************)
(* C23.  For every value h of the uint16 at offset 76 the LinkInfo start   *)
(* used by the decoder is 78 + h without wrap-around, and every offset     *)
(* derived from it is the exact sum of its terms, never reduced modulo     *)
(* 2^16 or 2^32.  Hence a decode succeeds only if the exact offsets lie    *)
(* inside the buffer: the structure's header, the volume table and the     *)
(* path (or the network volume table), and the string section when a       *)
(* string flag is set.                                                     *)
(***************************************************************************)
ExactStart == 78 + U16At(76)

ExactInside(u, width) == u.hi = 0 /\ ExactStart + u.lo + width <= Len(Bytes)

ExactOffsetsInside ==
    /\ ExactStart + 20 <= Len(Bytes)
    /\ IF BitSetAt(ExactStart + 8, 2)
       THEN /\ ExactStart + 24 <= Len(Bytes)
            /\ ExactInside(U32At(ExactStart + 20), 21)
       ELSE /\ ExactInside(U32At(ExactStart + 12), 17)
            /\ ExactInside(U32At(ExactStart + 16), 1)
    /\ (Bytes[21] \div 4) % 32 # 0 => ExactInside(U32At(ExactStart), 2)

C23_OffsetsDoNotWrap ==
    (Decoded /\ Readable /\ Len(Bytes) >= 78 /\ Bytes[1] = 76) =>
        /\ CheckHeaders(Bytes).start = ExactStart
        /\ Succeeded => ExactOffsetsInside

C23_OffsetsOfSmallFields ==
    (Decoded /\ Readable /\ Len(Bytes) >= 78 /\ Bytes[1] = 76
     /\ ExactStart + 24 <= Len(Bytes)
     /\ U32At(ExactStart).hi = 0 /\ U32At(ExactStart + 12).hi = 0
     /\ U32At(ExactStart + 16).hi = 0 /\ U32At(ExactStart + 20).hi = 0) =>
        /\ CheckHeaders(Bytes).start = ExactStart
        /\ Succeeded => ExactOffsetsInside

(***************************************************************************)
(* Versions 1.0.0 and 1.0.1.  refresh() is the same text in both but for   *)
(* the exception type (std::exception in 1.0.0, std::runtime_error in      *)
(* 1.0.1): every throw of the try block is of the type the handler         *)
(* catches, so the model keeps one error value for them (the err of        *)
(* readInteger).  "Target info" and "Additional info" are the statements   *)
(* of version 2.0.1 (TargetInfo, AdditionalInfo; readFixedLengthString of  *)
(* 1.0.x is the length-prefixed reader, readStringWithPrependedLength of   *)
(* 2.0.1, with the code point decoded in place).  The differences modelled *)
(* here: only the structure size 0x1C is accepted, the null-terminated     *)
(* reader copies the bytes as they are, and a failure resets the object.   *)
(***************************************************************************)
RECURSIVE readNullTerminatedStringLoop_1_0(_, _, _)
readNullTerminatedStringLoop_1_0(bytes, i, result) ==
    Bind(readInteger(bytes, i, 1), LAMBDA currentCharacter :
        IF currentCharacter.err # NoErr
        THEN [err |-> currentCharacter.err, s |-> result]
        ELSE IF currentCharacter.v = 0
        THEN [err |-> NoErr, s |-> result]
        ELSE readNullTerminatedStringLoop_1_0(bytes, i + 1,
                                              Append(result, currentCharacter.v)))

readNullTerminatedString_1_0(bytes, i) ==
    readNullTerminatedStringLoop_1_0(bytes, i, <<>>)

CheckHeaders_1_0(bytes) ==
    Bind(readInteger(bytes, 0, 1), LAMBDA magic :
    IF magic.err # NoErr
    THEN [err |-> magic.err, what |-> "Index out of range", start |-> 0]
    ELSE IF magic.v # 76
    THEN [err |-> InvalidLnkFile, what |-> "Invalid header", start |-> 0]
    ELSE
    Bind(readInteger(bytes, 76, 2), LAMBDA extra :
    IF extra.err # NoErr
    THEN [err |-> extra.err, what |-> "Index out of range", start |-> 0]
    ELSE
    Bind(StartOf(extra.v), LAMBDA start :
    Bind(readInteger(bytes, start + 4, 1), LAMBDA fileinfoHeader :
    IF fileinfoHeader.err # NoErr
    THEN [err |-> fileinfoHeader.err, what |-> "Index out of range", start |-> start]
    ELSE IF fileinfoHeader.v # 28
    THEN [err |-> InvalidLnkFile, what |-> "Invalid fileinfo header", start |-> start]
    ELSE [err |-> NoErr, what |-> "", start |-> start]))))

NetworkPathAndVolume_1_0(self, bytes, start) ==
    Bind(readInteger(bytes, start + 20, 4), LAMBDA offset :
    IF offset.err # NoErr THEN [err |-> offset.err, obj |-> self]
    ELSE
    Bind(Add32(start, offset.v), LAMBDA volumeOffset :
    Bind([self EXCEPT !.targetVolumeType = NetworkDrive,
                      !.targetVolumeSerial = U32Of(0)], LAMBDA self1 :
    Bind(readNullTerminatedString_1_0(bytes, ToSizeT(Add32(20, volumeOffset))),
         LAMBDA volumeName :
    IF volumeName.err # NoErr THEN [err |-> volumeName.err, obj |-> self1]
    ELSE
    Bind([self1 EXCEPT !.targetVolumeName = volumeName.s], LAMBDA self2 :
    Bind(ToSizeT(Add32(21, volumeOffset)) + Len(volumeName.s), LAMBDA pathOffset :
    Bind(readNullTerminatedString_1_0(bytes, pathOffset), LAMBDA targetDrive :
    IF targetDrive.err # NoErr THEN [err |-> targetDrive.err, obj |-> self2]
    ELSE
    Bind(readNullTerminatedString_1_0(bytes, pathOffset + 1 + Len(targetDrive.s)),
         LAMBDA remainder :
    IF remainder.err # NoErr THEN [err |-> remainder.err, obj |-> self2]
    ELSE [err |-> NoErr,
          obj |-> [self2 EXCEPT
                     !.targetPath = targetDrive.s \o <<92>> \o remainder.s]]))))))))

(***************************************************************************)
(* VolumeType is an unscoped enumeration without a fixed underlying type   *)
(* in 1.0.x: the member holds the stored value when that is one of its     *)
(* values (the files of SpecLegacy store no other).                        *)
(***************************************************************************)
LocalPathAndVolume_1_0(self, bytes, start) ==
    Bind(readInteger(bytes, start + 12, 4), LAMBDA offset :
    IF offset.err # NoErr THEN [err |-> offset.err, obj |-> self]
    ELSE
    Bind(Add32(start, offset.v), LAMBDA volumeOffset :
    Bind(readInteger(bytes, ToSizeT(Add32(4, volumeOffset)), 4), LAMBDA volumeType :
    IF volumeType.err # NoErr THEN [err |-> volumeType.err, obj |-> self]
    ELSE
    Bind([self EXCEPT !.targetVolumeType = volumeType.v.lo], LAMBDA self1 :
    Bind(readInteger(bytes, ToSizeT(Add32(8, volumeOffset)), 4), LAMBDA serial :
    IF serial.err # NoErr THEN [err |-> serial.err, obj |-> self1]
    ELSE
    Bind([self1 EXCEPT !.targetVolumeSerial = serial.v], LAMBDA self2 :
    Bind(readNullTerminatedString_1_0(bytes, ToSizeT(Add32(16, volumeOffset))),
         LAMBDA volumeName :
    IF volumeName.err # NoErr THEN [err |-> volumeName.err, obj |-> self2]
    ELSE
    Bind([self2 EXCEPT !.targetVolumeName = volumeName.s], LAMBDA self3 :
    Bind(readInteger(bytes, start + 16, 4), LAMBDA pathOffset :
    IF pathOffset.err # NoErr THEN [err |-> pathOffset.err, obj |-> self3]
    ELSE
    Bind(readNullTerminatedString_1_0(bytes, ToSizeT(Add32(start, pathOffset.v))),
         LAMBDA path :
    IF path.err # NoErr THEN [err |-> path.err, obj |-> self3]
    ELSE [err |-> NoErr, obj |-> [self3 EXCEPT !.targetPath = path.s]]))))))))))

(***************************************************************************)
(* The try block of refresh(): the error caught, if any, and the object    *)
(* with the members assigned before the throw.                             *)
(***************************************************************************)
Decode_1_0(self, bytes) ==
    Bind(CheckHeaders_1_0(bytes), LAMBDA headers :
    IF headers.err # NoErr
    THEN [err |-> headers.err, what |-> headers.what, obj |-> self]
    ELSE
    Bind(TargetInfo(self, bytes, headers.start), LAMBDA target :
    IF target.err # NoErr
    THEN [err |-> target.err, what |-> Thrown(target.err), obj |-> target.obj]
    ELSE
    Bind(IF target.obj.targetIsOnNetwork
         THEN NetworkPathAndVolume_1_0(target.obj, bytes, headers.start)
         ELSE LocalPathAndVolume_1_0(target.obj, bytes, headers.start), LAMBDA path :
    IF path.err # NoErr
    THEN [err |-> path.err, what |-> Thrown(path.err), obj |-> path.obj]
    ELSE
    Bind(AdditionalInfo(path.obj, bytes, headers.start), LAMBDA additional :
    [err |-> additional.err, what |-> Thrown(additional.err),
     obj |-> additional.obj]))))

(***************************************************************************)
(* The handler of refresh(): "Reset everything to avoid garbage values".   *)
(***************************************************************************)
ResetScalars_1_0(self) ==
    [self EXCEPT !.isValid = FALSE,
                 !.targetAttributes = 0,
                 !.targetSize = U32Of(0),
                 !.targetIsOnNetwork = FALSE,
                 !.iconIndex = U32Of(0),
                 !.targetVolumeType = Unknown,
                 !.targetVolumeSerial = U32Of(0)]

Reset_1_0(self) ==
    [self EXCEPT !.isValid = FALSE,
                 !.targetAttributes = 0,
                 !.targetSize = U32Of(0),
                 !.targetIsOnNetwork = FALSE,
                 !.iconIndex = U32Of(0),
                 !.targetPath = <<>>,
                 !.targetVolumeType = Unknown,
                 !.targetVolumeSerial = U32Of(0),
                 !.targetVolumeName = <<>>,
                 !.description = <<>>,
                 !.relativeTargetPath = <<>>,
                 !.workingDirectory = <<>>,
                 !.commandLineArgs = <<>>,
                 !.iconPath = <<>>]

(***************************************************************************)
(* refresh() of 1.0.x.  Nothing is thrown to the caller: err and what are  *)
(* the exception the handler caught, kept for the properties.              *)
(***************************************************************************)
refresh_1_0(self, content) ==
    Bind(content, LAMBDA opened :
        IF ~opened.good
        THEN [err |-> IoError, what |-> "Failed to open file", obj |-> Reset_1_0(self)]
        ELSE Bind(Decode_1_0(self, opened.bytes), LAMBDA r :
                 IF r.err # NoErr
                 THEN [err |-> r.err, what |-> r.what, obj |-> Reset_1_0(r.obj)]
                 ELSE r))

(***************************************************************************)
(* The constructors of 1.0.x.  LnkFileInfo(filePath) sets _filePath and    *)
(* _isValid(true), leaves the other scalars uninitialised and calls        *)
(* refresh(); LnkFileInfo() gives an invalid object with an empty path.    *)
(***************************************************************************)
NewObject_1_0(filePath, garbage) ==
    [filePath           |-> filePath,
     isValid            |-> TRUE,
     targetPath         |-> <<>>,
     targetVolumeName   |-> <<>>,
     description        |-> <<>>,
     relativeTargetPath |-> <<>>,
     workingDirectory   |-> <<>>,
     commandLineArgs    |-> <<>>,
     iconPath           |-> <<>>,
     targetSize         |-> garbage,
     iconIndex          |-> garbage,
     targetVolumeSerial |-> garbage,
     targetAttributes   |-> garbage.lo,
     targetVolumeType   |-> garbage.lo % 8,
     targetIsOnNetwork  |-> garbage.lo % 2 = 1]

DefaultObject_1_0 ==
    [NewObject_1_0(<<>>, U32Of(0)) EXCEPT !.isValid = FALSE]

Construct_1_0(filePath, garbage, content) ==
    refresh_1_0(NewObject_1_0(filePath, garbage), content)

isValid(self) == self.isValid

absoluteTargetPath_1_0(self) == self.targetPath

(***************************************************************************)
(* SpecLegacy: one 1.0.x object and the file at its path, which the        *)
(* environment replaces or deletes.  hist[o].ok tells whether every        *)
(* refresh() of o so far, the constructor's included, decoded its file;    *)
(* hist[o].ever whether one of them did.  An object made by the default    *)
(* constructor has the empty path, at which no file opens.                 *)
(***************************************************************************)
LegacyFiles ==
    Shortcuts
    \cup {Whole([BasicShortcut EXCEPT !.vname = <<233>>]),
          CutTo(BasicShortcut, Len(BuildFile(BasicShortcut)) - 3)}

ContentAt_1_0(filePath) == IF filePath = LnkPath THEN Content(file) ELSE Content(NoFile)

New_1_0(o) ==
    /\ obj[o] = NoObj
    /\ \E garbage \in Garbage :
          \E r \in {Construct_1_0(LnkPath, garbage, Content(file))} :
              /\ obj' = [obj EXCEPT ![o] = r.obj]
              /\ hist' = [hist EXCEPT ![o] = [src |-> file, same |-> TRUE,
                                              ok |-> r.err = NoErr,
                                              ever |-> r.err = NoErr]]
              /\ last' = [op |-> "new", id |-> o, err |-> r.err, what |-> r.what]
    /\ UNCHANGED <<file, call, ret>>

NewDefault_1_0(o) ==
    /\ obj[o] = NoObj
    /\ obj' = [obj EXCEPT ![o] = DefaultObject_1_0]
    /\ hist' = [hist EXCEPT ![o] = [src |-> NoFile, same |-> TRUE,
                                    ok |-> FALSE, ever |-> FALSE]]
    /\ last' = [NoOp EXCEPT !.op = "default", !.id = o]
    /\ UNCHANGED <<file, call, ret>>

Refresh_1_0(o) ==
    /\ obj[o] # NoObj
    /\ \E r \in {refresh_1_0(obj[o], ContentAt_1_0(obj[o].filePath))} :
           /\ obj' = [obj EXCEPT ![o] = r.obj]
           /\ hist' = [hist EXCEPT ![o].ok = @ /\ r.err = NoErr,
                                   ![o].ever = @ \/ r.err = NoErr]
           /\ last' = [op |-> "refresh", id |-> o, err |-> r.err, what |-> r.what]
    /\ UNCHANGED <<file, call, ret>>

NextLegacy ==
    \/ \E d \in LegacyFiles : WriteFile(d)
    \/ DeleteFile
    \/ New_1_0(1)
    \/ NewDefault_1_0(1)
    \/ Refresh_1_0(1)
    \/ Destroy(1)

SpecLegacy == Init /\ [][NextLegacy]_vars

(***************************************************************************)
(* C24.  In the 1.0.x versions, after any sequence of refresh() calls      *)
(* while the file changes between valid and invalid content, isValid() is  *)
(* true exactly when the most recent refresh() (the constructor's          *)
(* included) decoded the file successfully.                                *)
(***************************************************************************)
C24_IsValidIffLastRefreshDecoded ==
    Decoded => (isValid(Subject) <=> last.err = NoErr)

C24_IsValidIffEveryRefreshDecoded ==
    \A o \in ObjIds : obj[o] # NoObj => (isValid(obj[o]) <=> hist[o].ok)

(***************************************************************************)
(* C25.  In the 1.0.x versions a refresh() that fails (file missing, bad   *)
(* magic, structure-size byte not 0x1C, or any out-of-range read) leaves   *)
(* the object with isValid() false, all string fields empty                *)
(* (absoluteTargetPath included), target size, attributes, icon index and  *)
(* serial 0, network flag false and volume type Unknown, whatever was      *)
(* decoded before the failure.  (That no exception reaches the caller is   *)
(* the shape of refresh_1_0: the object is always replaced.)               *)
(***************************************************************************)
IsReset_1_0(self) ==
    /\ ~isValid(self)
    /\ absoluteTargetPath_1_0(self) = <<>>
    /\ self.targetVolumeName = <<>>
    /\ self.description = <<>>
    /\ self.relativeTargetPath = <<>>
    /\ self.workingDirectory = <<>>
    /\ self.commandLineArgs = <<>>
    /\ self.iconPath = <<>>
    /\ ~hasCustomIcon(self)
    /\ self.targetSize = U32Of(0)
    /\ self.targetAttributes = 0
    /\ self.iconIndex = U32Of(0)
    /\ self.targetVolumeSerial = U32Of(0)
    /\ ~self.targetIsOnNetwork
    /\ self.targetVolumeType = Unknown

C25_FailedRefreshResets ==
    (Decoded /\ last.err # NoErr) => IsReset_1_0(Subject)

C25_Witness ==
    /\ last.op = "refresh"
    /\ last.what = "Index out of range"
    /\ Len(Bytes) > 100
    /\ hist[last.id].ever
    /\ IsReset_1_0(Subject)

(***************************************************************************)
(* C26.  readFixedLengthString(bytes, offset, length) transcodes exactly   *)
(* `length` source bytes: no readUtf16Codepoint call of its loop takes a   *)
(* code unit at or beyond the end of the declared range, also when the     *)
(* last code unit inside the range is a high surrogate and the code unit   *)
(* just past the range is a low surrogate.                                 *)
(***************************************************************************)
EndOfDeclaredRange == call.offset + 2 + call.length

ReadsInsideDeclaredRange ==
    \A k \in DOMAIN ret.calls :
        ret.calls[k].i + ret.calls[k].bytesRead <= EndOfDeclaredRange

SourceBytesTaken ==
    IF ret.calls = <<>> THEN 0
    ELSE ret.calls[Len(ret.calls)].i + ret.calls[Len(ret.calls)].bytesRead
         - (call.offset + 2)

C26_FixedLengthReadsExactlyLength ==
    (Returned /\ call.fn = "readFixedLengthString" /\ ret.err = NoErr) =>
        /\ ReadsInsideDeclaredRange
        /\ SourceBytesTaken = call.length

PairAcrossEnd ==
    /\ call.units # <<>>
    /\ IsHighSurrogate(call.units[Len(call.units)])
    /\ Len(call.bytes) >= EndOfDeclaredRange + 2
    /\ IsLowSurrogate(LittleEndian(call.bytes, EndOfDeclaredRange, 2))

C26_FixedLengthWithoutPairAcrossEnd ==
    (Returned /\ call.fn = "readFixedLengthString" /\ ret.err = NoErr
     /\ ~PairAcrossEnd) =>
        /\ ReadsInsideDeclaredRange
        /\ SourceBytesTaken = call.length

(***************************************************************************)
(* C27.  After every successful decode, targetVolumeType() is one of the   *)
(* seven enumerated values Unknown .. RamDrive (0..6), for every uint32    *)
(* stored at volumeOffset + 4, and it equals that stored uint32 whenever   *)
(* the stored value is in 0..6.                                            *)
(***************************************************************************)
VolumeTypes ==
    {Unknown, NoRootDirectory, Removable, HardDrive, NetworkDrive, CdRom, RamDrive}

StoredVolumeType == U32At(LocalVolumeAt + 4)

C27_VolumeTypeEnumerated ==
    Succeeded =>
        /\ Subject.targetVolumeType \in VolumeTypes
        /\ (~NetworkBit /\ StoredVolumeType.hi = 0 /\ StoredVolumeType.lo \in 0..6)
              => Subject.targetVolumeType = StoredVolumeType.lo

C27_VolumeTypeIsLowByte ==
    Succeeded =>
        /\ Subject.targetVolumeType =
              IF NetworkBit THEN NetworkDrive ELSE StoredVolumeType.lo % 256
        /\ (~NetworkBit /\ StoredVolumeType.hi = 0 /\ StoredVolumeType.lo \in 0..6)
              => Subject.targetVolumeType = StoredVolumeType.lo

(***************************************************************************)
(* C28.  In every state a caller can observe after any sequence of         *)
(* successful and failed refresh() calls on an object (version 2.0.1),     *)
(* targetIsOnNetwork() true implies targetVolumeType() = NetworkDrive and  *)
(* targetVolumeSerial() = 0.                                               *)
(***************************************************************************)
targetIsOnNetwork(self) == self.targetIsOnNetwork

targetVolumeType(self) == self.targetVolumeType

targetVolumeSerial(self) == self.targetVolumeSerial

NetworkVolumeFixed(self) ==
    targetIsOnNetwork(self) =>
        (targetVolumeType(self) = NetworkDrive /\ targetVolumeSerial(self) = U32Of(0))

C28_NetworkImpliesNetworkDrive ==
    \A o \in ObjIds : obj[o] # NoObj => NetworkVolumeFixed(obj[o])

C28_NetworkImpliesNetworkDriveAfterSuccess ==
    \A o \in ObjIds :
        (obj[o] # NoObj /\ last.id = o /\ last.err = NoErr) => NetworkVolumeFixed(obj[o])

(***************************************************************************)
(* C29.  refresh() (version 2.0.1) that fails because the file cannot be   *)
(* opened, the magic byte is wrong or the structure-size byte is           *)
(* unrecognized leaves every field of the object unchanged, and every      *)
(* refresh(), failing or not, leaves filePath() and absoluteFilePath()     *)
(* unchanged, so the result of operator== between two objects is not       *)
(* changed by refresh().                                                   *)
(***************************************************************************)
FailedBeforeAssigning(what) ==
    what \in {"Failed to open file", "Invalid header", "Invalid fileinfo header"}

RefreshFrame ==
    last'.op = "refresh" =>
        /\ FailedBeforeAssigning(last'.what) => obj' = obj
        /\ obj'[last'.id].filePath = obj[last'.id].filePath
        /\ obj'[last'.id].absoluteFilePath = obj[last'.id].absoluteFilePath
        /\ \A a, b \in ObjIds :
              (obj[a] # NoObj /\ obj[b] # NoObj) =>
                  /\ operatorEq(obj'[a], obj'[b]) = operatorEq(obj[a], obj[b])
                  /\ operatorNe(obj'[a], obj'[b]) = operatorNe(obj[a], obj[b])

C29_FailedRefreshKeepsObject == [][RefreshFrame]_vars

C29_Witness ==
    /\ last.op = "refresh"
    /\ last.what = "Invalid fileinfo header"
    /\ Live(1) /\ Live(2)
    /\ operatorEq(obj[1], obj[2])
    /\ obj[last.id].description # <<>>
    /\ obj[last.id].targetPath # <<>>

(***************************************************************************)
(* SpecLoops: the three string readers, one loop iteration per step.  ret  *)
(* holds the locals of the running loop (the offset i, the declared end,   *)
(* the result so far, the number of iterations done) and, when the call    *)
(* has returned or thrown, its outcome.  Invoke is the caller choosing the *)
(* reader and its arguments.  The code is sequential and                   *)
(* nothing preempts a loop for ever: the next iteration is weakly fair.    *)
(***************************************************************************)
LoopUnits ==
    {<<>>, <<65>>, <<55296>>, <<56320>>, <<65, 8364>>, <<55296, 56320>>,
     <<56320, 55296>>, <<65, 55296>>, <<8364, 8364, 8364>>, <<55296, 56320, 65>>,
     <<65, 55296, 56320>>, <<55296, 55296, 56320>>}

LoopCalls ==
    {PrependedCall(pad, units, tail, -1) :
        pad \in {0, 1}, units \in LoopUnits, tail \in {<<>>, LE16(56320)}}
    \cup {FixedCall(units, tail) : units \in LoopUnits, tail \in Tails}
    \cup {[FixedCall(units, <<>>) EXCEPT !.length = @ + 2] : units \in LoopUnits}
    \cup {NullTerminatedCall(<<>>, string, after) :
            string \in Latin1Strings, after \in {<<>>, <<0>>}}

Running == ret # NoRet /\ ret.running

Finished == ret # NoRet /\ ~ret.running

Loop(i, end, result, steps) ==
    [running |-> TRUE, i |-> i, end |-> end, result |-> result, steps |-> steps,
     err |-> NoErr]

Outcome(err, result) ==
    [running |-> FALSE, i |-> ret.i, end |-> ret.end, result |-> result,
     steps |-> ret.steps, err |-> err]

SameOffset(i) == i

NextOffset(i) == i + 1

InitLoops ==
    /\ call = NoCall
    /\ ret = NoRet
    /\ file = NoFile
    /\ obj = [o \in ObjIds |-> NoObj]
    /\ last = NoOp
    /\ hist = [o \in ObjIds |-> NoHist]

Invoke ==
    /\ call = NoCall
    /\ call' \in LoopCalls
    /\ UNCHANGED <<file, obj, last, hist, ret>>

EnterNullTerminated ==
    /\ call.fn = "readNullTerminatedString"
    /\ ret = NoRet
    /\ ret' = Loop(call.i, 0, <<>>, 0)
    /\ UNCHANGED <<file, obj, last, hist, call>>

IterateNullTerminated ==
    /\ call.fn = "readNullTerminatedString"
    /\ Running
    /\ \E currentCharacter \in {readInteger(call.bytes, ret.i, 1)} :
          ret' = IF currentCharacter.err # NoErr
                 THEN Outcome(currentCharacter.err, ret.result)
                 ELSE IF currentCharacter.v = 0
                 THEN Outcome(NoErr, ret.result)
                 ELSE Loop(NextOffset(ret.i), 0,
                           ret.result \o Latin1ToUtf8(currentCharacter.v),
                           ret.steps + 1)
    /\ UNCHANGED <<file, obj, last, hist, call>>

EnterPrepended ==
    /\ call.fn = "readStringWithPrependedLength"
    /\ ret = NoRet
    /\ \E n \in {readInteger(call.bytes, call.i, 2)} :
          ret' = IF n.err # NoErr
                 THEN [running |-> FALSE, i |-> call.i, end |-> 0, result |-> <<>>,
                       steps |-> 0, err |-> n.err]
                 ELSE Loop(call.i + 2, call.i + n.v * 2, <<>>, 0)
    /\ UNCHANGED <<file, obj, last, hist, call>>

IteratePrepended ==
    /\ call.fn = "readStringWithPrependedLength"
    /\ Running
    /\ IF ~(ret.i <= ret.end)
       THEN ret' = Outcome(NoErr, ret.result)
       ELSE \E r \in {readUtf16Codepoint(call.bytes, ret.i, ret.end)} :
               ret' = IF r.err # NoErr
                      THEN Outcome(r.err, ret.result)
                      ELSE Loop(ret.i + r.bytesRead, ret.end, ret.result \o r.s,
                                ret.steps + 1)
    /\ UNCHANGED <<file, obj, last, hist, call>>

EnterFixed ==
    /\ call.fn = "readFixedLengthString"
    /\ ret = NoRet
    /\ ret' = Loop(0, call.length, <<>>, 0)
    /\ UNCHANGED <<file, obj, last, hist, call>>

IterateFixed ==
    /\ call.fn = "readFixedLengthString"
    /\ Running
    /\ IF ~(ret.i < call.length)
       THEN ret' = Outcome(NoErr, ret.result)
       ELSE \E r \in {readUtf16Codepoint(call.bytes, ret.i + call.offset + 2,
                                         Len(call.bytes))} :
               ret' = IF r.err # NoErr
                      THEN Outcome(r.err, ret.result)
                      ELSE Loop(ret.i + r.bytesRead, ret.end, ret.result \o r.s,
                                ret.steps + 1)
    /\ UNCHANGED <<file, obj, last, hist, call>>

NextLoops ==
    \/ Invoke
    \/ EnterNullTerminated
    \/ IterateNullTerminated
    \/ EnterPrepended
    \/ IteratePrepended
    \/ EnterFixed
    \/ IterateFixed

SpecLoops == InitLoops /\ [][NextLoops]_vars /\ WF_vars(NextLoops)

(***************************************************************************)
(* C30.  Every decode of a finite buffer terminates, with a result or with *)
(* an error: the null-terminated read, the length-prefixed read and the    *)
(* fixed-byte-length read each advance their offset by at least 1          *)
(* (respectively 2) bytes per iteration and stop at the terminator, at the *)
(* declared end, or at the first out-of-range read.                        *)
(***************************************************************************)
Stride == IF call.fn = "readNullTerminatedString" THEN 1 ELSE 2

ReadOffset == IF call.fn = "readFixedLengthString" THEN ret.i + call.offset + 2 ELSE ret.i

StopsWhereItShould ==
    IF ret'.err # NoErr
    THEN ReadOffset + Stride > Len(call.bytes) \/ ReadOffset + 4 > Len(call.bytes)
    ELSE CASE call.fn = "readNullTerminatedString" -> call.bytes[ret.i + 1] = 0
           [] call.fn = "readStringWithPrependedLength" -> ret.i > ret.end
           [] call.fn = "readFixedLengthString" -> ret.i >= call.length

LoopAdvances ==
    /\ (Running /\ ret'.running) =>
          (ret'.i >= ret.i + Stride /\ ret'.i <= ret.i + 4 /\ ret'.i <= Len(call.bytes) + 2)
    /\ (Running /\ ~ret'.running) => StopsWhereItShould

C30_EveryReadTerminates == [][LoopAdvances]_vars /\ <>Finished

C30_Witness ==
    /\ Finished
    /\ call.fn = "readFixedLengthString"
    /\ ret.err = NoErr
    /\ call.units = <<8364, 8364, 8364>>
    /\ ret.steps = Len(call.units)
    /\ ret.i = call.length
    /\ Len(ret.result) = 3 * Len(call.units)

====
